---- MODULE Spec2Model ----
(***************************************************************************)
(* Wildfire spread simulator (ember-fire-mapper-atlas).                    *)
(*                                                                         *)
(* Specifications over one set of variables:                               *)
(*   Spec     the simulation core as pure functions: a grid value is       *)
(*            threaded through calls of stepSimulation, igniteCell and     *)
(*            resetGrid with arbitrary parameters, random draws and        *)
(*            coordinates.                                                 *)
(*   AppSpec  the React application: Index and WildfireMap each hold a     *)
(*            gridData state, the 500 ms timer, the click handler, the     *)
(*            area selection and the Start / Pause / Reset commands.       *)
(*   FnSpec   single calls of the pure functions (terrain classification,  *)
(*            wind effect, spread probability, neighbourhood, one cell's   *)
(*            update, tile enumeration) on inputs drawn from bounded sets. *)
(*   RasterSpec  one rasterization of a selected area, from the request of *)
(*            its tiles to the classified cells.                           *)
(*                                                                         *)
(* Number representation (the source uses IEEE doubles):                   *)
(*   burnIntensity   hundredths           (1.0 = 100, 0.05 = 5, 0.1 = 10)  *)
(*   flammability    tenths               (0.8 = 8)                        *)
(*   windEffect      thousandths          (0.3 = 300)                      *)
(*   probabilities and random draws   1/ProbScale  (1.0 = 100000)          *)
(***************************************************************************)
EXTENDS Integers, Sequences, FiniteSets, TLC

VARIABLES
    grid,                \* Spec: the GridData value the core functions are applied to
    lastCall,            \* Spec: the call that produced grid: [op, x, y]
    mapGrid,             \* AppSpec: WildfireMap's gridData state (null or a grid)
    effGrid,             \* AppSpec: the gridData of WildfireMap's last render, which
                         \*          the interval callback and the click listener hold
    indexGrid,           \* AppSpec: Index's gridData state (null or a grid)
    isSimulationRunning, \* AppSpec: Index's isSimulationRunning state
    simulationParams,    \* AppSpec: Index's simulationParams state
    selectedBounds,      \* AppSpec: Index's selectedBounds state
    isProcessing,        \* AppSpec: WildfireMap's isProcessing state
    isSelecting,         \* AppSpec: useMapSelection's isSelecting state
    selectionStart,      \* AppSpec: useMapSelection's selectionStart state
    pending,             \* AppSpec: the rasterizations in flight (their bounds)
    newest,              \* AppSpec: the rasterization started last (null or a request)
    sinceReset,          \* AppSpec: history of the commands since the last Reset
    ticksLeft,           \* AppSpec: timer ticks the model still lets happen
    probe                \* FnSpec: a function call: its name, arguments and result

coreVars == <<grid, lastCall>>
appVars == <<mapGrid, effGrid, indexGrid, isSimulationRunning, simulationParams,
             selectedBounds, isProcessing, isSelecting, selectionStart, pending, newest,
             sinceReset, ticksLeft>>
vars == <<grid, lastCall, mapGrid, effGrid, indexGrid, isSimulationRunning,
          simulationParams, selectedBounds, isProcessing, isSelecting, selectionStart,
          pending, newest, sinceReset, ticksLeft, probe>>

\* JavaScript null, as a record so that it compares with the records of the model
null == [null |-> TRUE]

----------------------------------------------------------------------------
(* types/simulation.ts *)

FOREST == "FOREST"
GRASS == "GRASS"
URBAN == "URBAN"
WATER == "WATER"
FARMLAND == "FARMLAND"
TerrainType == {FOREST, GRASS, URBAN, WATER, FARMLAND}

UNBURNED == "UNBURNED"
BURNING == "BURNING"
BURNED == "BURNED"
BurnState == {UNBURNED, BURNING, BURNED}

Max(a, b) == IF a >= b THEN a ELSE b
Min(a, b) == IF a <= b THEN a ELSE b
Abs(a) == IF a < 0 THEN -a ELSE a

\* 1.0 as a probability or a random draw
ProbScale == 100000

----------------------------------------------------------------------------
(* terrainClassifier.ts *)

\* Math.round(a / b) for b > 0: the nearest integer, a half rounded up
RoundDiv(a, b) == (2 * a + b) \div (2 * b)

\* rgbToHsv for channels in 0..255: h in degrees, s and v in percent.  The quotients
\* are taken exactly; the colours the model draws (ColourLevels) are ones for which
\* the IEEE quotients round the same way.
rgbToHsv(r, g, b) ==
    LET max == Max(r, Max(g, b))
        min == Min(r, Min(g, b))
        diff == max - min
        h60 == IF diff = 0 THEN 0
               ELSE IF max = r THEN RoundDiv(60 * (g - b), diff)
               ELSE IF max = g THEN RoundDiv(60 * (b - r) + 120 * diff, diff)
               ELSE RoundDiv(60 * (r - g) + 240 * diff, diff)
    IN  [h |-> IF h60 < 0 THEN h60 + 360 ELSE h60,
         s |-> IF max = 0 THEN 0 ELSE RoundDiv(100 * diff, max),
         v |-> RoundDiv(100 * max, 255)]

\* classifyTerrain with the Grass rule tried before the Forest rule
classifyTerrain_GrassFirst(r, g, b) ==
    LET hsv == rgbToHsv(r, g, b)
        h == hsv.h
        s == hsv.s
        v == hsv.v
    IN  IF h >= 180 /\ h <= 240 /\ s > 30 /\ v > 20 THEN WATER
        ELSE IF h >= 60 /\ h <= 120 /\ s > 20 /\ v >= 40 THEN GRASS
        ELSE IF h >= 80 /\ h <= 160 /\ s > 30 /\ v < 60 THEN FOREST
        ELSE IF s < 20 /\ v > 30 /\ v < 80 THEN URBAN
        ELSE IF (h >= 30 /\ h <= 60) \/ (h >= 0 /\ h <= 30) THEN FARMLAND
        ELSE GRASS

classifyTerrain(r, g, b) ==
    LET hsv == rgbToHsv(r, g, b)
        h == hsv.h
        s == hsv.s
        v == hsv.v
    IN  IF h >= 180 /\ h <= 240 /\ s > 30 /\ v > 20 THEN WATER
        ELSE IF h >= 80 /\ h <= 160 /\ s > 30 /\ v < 60 THEN FOREST
        ELSE IF h >= 60 /\ h <= 120 /\ s > 20 /\ v >= 40 THEN GRASS
        ELSE IF s < 20 /\ v > 30 /\ v < 80 THEN URBAN
        ELSE IF (h >= 30 /\ h <= 60) \/ (h >= 0 /\ h <= 30) THEN FARMLAND
        ELSE GRASS

\* getFlammability with no case for WATER, which then gets the default
getFlammability_NoWaterCase(terrain) ==
    CASE terrain = FOREST -> 8
      [] terrain = GRASS -> 6
      [] terrain = FARMLAND -> 4
      [] terrain = URBAN -> 2
      [] OTHER -> 3

\* getFlammability, in tenths
getFlammability(terrain) ==
    CASE terrain = FOREST -> 8
      [] terrain = GRASS -> 6
      [] terrain = FARMLAND -> 4
      [] terrain = URBAN -> 2
      [] terrain = WATER -> 0
      [] OTHER -> 3

----------------------------------------------------------------------------
(* tileUtils.ts *)

\* A latitude or longitude in hundredths of a degree, as the fraction n / d (the
\* centre of a grid cell is not a whole number of hundredths)
Frac(n, d) == [n |-> n, d |-> d]

RECURSIVE Pow2(_)
Pow2(k) == IF k = 0 THEN 1 ELSE 2 * Pow2(k - 1)

\* latLonToTile for zoom >= 5 and places within 0.2 degree of the equator, where
\* asinh(tan(lat)) and lat in radians differ by less than one part in 10^5 and the
\* floor of the source's double arithmetic equals the floor of
\*     x = (lon + 180) / 360 * 2^zoom      y = (1 - lat / 180) / 2 * 2^zoom
\* With lon = n / (100 d) degrees, (lon + 180) / 360 * 2^zoom is
\* (n + 18000 d) * 2^(zoom - 5) / (1125 d).
latLonToTile(lat, lon, zoom) ==
    [x |-> ((lon.n + 18000 * lon.d) * Pow2(zoom - 5)) \div (1125 * lon.d),
     y |-> (1125 * lat.d * Pow2(zoom - 1) - lat.n * Pow2(zoom - 5)) \div (1125 * lat.d)]

\* getTilesForBounds with the loops exchanged: y in the outer loop, x in the inner
getTilesForBounds_RowMajor(bounds, zoom) ==
    LET topLeft == latLonToTile(Frac(bounds.north, 1), Frac(bounds.west, 1), zoom)
        bottomRight == latLonToTile(Frac(bounds.south, 1), Frac(bounds.east, 1), zoom)
        columns == Max(0, bottomRight.x - topLeft.x + 1)
        rows == Max(0, bottomRight.y - topLeft.y + 1)
    IN  [i \in 1..(columns * rows) |->
            [x |-> topLeft.x + ((i - 1) % columns), y |-> topLeft.y + ((i - 1) \div columns)]]

\* getTilesForBounds with loops that stop before the tile of the south-east corner
\* (x < bottomRight.x, y < bottomRight.y)
getTilesForBounds_Exclusive(bounds, zoom) ==
    LET topLeft == latLonToTile(Frac(bounds.north, 1), Frac(bounds.west, 1), zoom)
        bottomRight == latLonToTile(Frac(bounds.south, 1), Frac(bounds.east, 1), zoom)
        columns == Max(0, bottomRight.x - topLeft.x)
        rows == Max(0, bottomRight.y - topLeft.y)
    IN  [i \in 1..(columns * rows) |->
            [x |-> topLeft.x + ((i - 1) \div rows), y |-> topLeft.y + ((i - 1) % rows)]]

\* getTilesForBounds: the tiles pushed by the nested loops, x in the outer loop and
\* y in the inner one (a tile's z and url are functions of x, y and zoom)
getTilesForBounds(bounds, zoom) ==
    LET topLeft == latLonToTile(Frac(bounds.north, 1), Frac(bounds.west, 1), zoom)
        bottomRight == latLonToTile(Frac(bounds.south, 1), Frac(bounds.east, 1), zoom)
        columns == Max(0, bottomRight.x - topLeft.x + 1)
        rows == Max(0, bottomRight.y - topLeft.y + 1)
    IN  [i \in 1..(columns * rows) |->
            [x |-> topLeft.x + ((i - 1) \div rows), y |-> topLeft.y + ((i - 1) % rows)]]

----------------------------------------------------------------------------
(* tileProcessor.ts *)

\* sampleTerrainAtLocation: hasTile says whether a loaded tile covers the location,
\* samples how many of the pixels around it could be read, and avg is the rounded
\* average colour of those pixels
sampleTerrainAtLocation(hasTile, samples, avg) ==
    IF ~hasTile THEN classifyTerrain(120, 150, 80)
    ELSE IF samples = 0 THEN classifyTerrain(120, 150, 80)
    ELSE classifyTerrain(avg.r, avg.g, avg.b)

----------------------------------------------------------------------------
(* cellularAutomata.ts *)

Directions ==
    << <<-1, -1>>, <<-1, 0>>, <<-1, 1>>,
       <<0, -1>>,             <<0, 1>>,
       <<1, -1>>,  <<1, 0>>,  <<1, 1>> >>

GridWidthOf(cells) == Cardinality(DOMAIN cells[0])
GridHeightOf(cells) == Cardinality(DOMAIN cells)

RECURSIVE NeighborsFrom(_, _, _, _)
NeighborsFrom(cells, x, y, i) ==
    IF i > Len(Directions) THEN << >>
    ELSE LET nx == x + Directions[i][1]
             ny == y + Directions[i][2]
         IN  IF nx >= 0 /\ nx < GridWidthOf(cells) /\ ny >= 0 /\ ny < GridHeightOf(cells)
             THEN <<cells[ny][nx]>> \o NeighborsFrom(cells, x, y, i + 1)
             ELSE NeighborsFrom(cells, x, y, i + 1)

\* getNeighbors on a grid whose opposite edges are joined
RECURSIVE NeighborsWrapFrom(_, _, _, _)
NeighborsWrapFrom(cells, x, y, i) ==
    IF i > Len(Directions) THEN << >>
    ELSE LET nx == (x + Directions[i][1] + GridWidthOf(cells)) % GridWidthOf(cells)
             ny == (y + Directions[i][2] + GridHeightOf(cells)) % GridHeightOf(cells)
         IN  <<cells[ny][nx]>> \o NeighborsWrapFrom(cells, x, y, i + 1)

getNeighbors_Wrap(cells, x, y) == NeighborsWrapFrom(cells, x, y, 1)

getNeighbors(cells, x, y) == NeighborsFrom(cells, x, y, 1)

\* Math.atan2(dy, dx) * 180 / PI for the offsets between adjacent cells
Atan2Deg(dy, dx) ==
    CASE dx > 0 /\ dy = 0 -> 0
      [] dx > 0 /\ dy > 0 -> 45
      [] dx = 0 /\ dy > 0 -> 90
      [] dx < 0 /\ dy > 0 -> 135
      [] dx < 0 /\ dy = 0 -> 180
      [] dx < 0 /\ dy < 0 -> -135
      [] dx = 0 /\ dy < 0 -> -90
      [] dx > 0 /\ dy < 0 -> -45
      [] OTHER -> 0

\* JavaScript a % b for b > 0: the result has the sign of a
JsMod(a, b) == IF a >= 0 THEN a % b ELSE -((-a) % b)

\* Math.cos of an angle in degrees (a multiple of 45), in thousandths
CosDeg(angle) ==
    LET a == Abs(angle) % 360
        r == IF a > 180 THEN 360 - a ELSE a
    IN  CASE r = 0 -> 1000
          [] r = 45 -> 707
          [] r = 90 -> 0
          [] r = 135 -> -707
          [] OTHER -> -1000

\* calculateWindEffect, in thousandths
calculateWindEffect(fromX, fromY, toX, toY, windDirection) ==
    LET fireDirection == Atan2Deg(toY - fromY, toX - fromX)
        normalizedFireDir == JsMod(fireDirection + 360, 360)
        normalizedWindDir == JsMod(windDirection + 360, 360)
        angleDiff == Abs(normalizedWindDir - normalizedFireDir)
        effectiveAngle == Min(angleDiff, 360 - angleDiff)
    IN  300 + (7 * CosDeg(effectiveAngle)) \div 10

\* calculateSpreadProbability without the final Math.min(1.0, probability)
\* calculateSpreadProbability without Math.max(0, ...) on the three effects
calculateSpreadProbability_NoFloor(fromCell, toCell, params, windEffect) ==
    LET p0 == getFlammability(toCell.terrain) * (ProbScale \div 10)
        temperatureEffect == params.temperature - 20
        humidityEffect == 100 - params.humidity
        rainEffect == 100 - params.rainLikelihood
        p1 == (p0 * (50 + temperatureEffect)) \div 100
        p2 == (p1 * humidityEffect) \div 100
        p3 == (p2 * rainEffect) \div 100
        p4 == (p3 * (2000 + windEffect)) \div 2500
        p5 == (p4 * (100 + fromCell.burnIntensity)) \div 200
    IN  Min(ProbScale, p5)

\* calculateSpreadProbability reading the target cell's humidity and temperature
\* snapshot instead of the parameters
calculateSpreadProbability_CellWeather(fromCell, toCell, params, windEffect) ==
    LET p0 == getFlammability(toCell.terrain) * (ProbScale \div 10)
        temperatureEffect == Max(0, toCell.temperature - 20)
        humidityEffect == Max(0, 100 - toCell.humidity)
        rainEffect == Max(0, 100 - params.rainLikelihood)
        p1 == (p0 * (50 + temperatureEffect)) \div 100
        p2 == (p1 * humidityEffect) \div 100
        p3 == (p2 * rainEffect) \div 100
        p4 == (p3 * (2000 + windEffect)) \div 2500
        p5 == (p4 * (100 + fromCell.burnIntensity)) \div 200
    IN  Min(ProbScale, p5)

calculateSpreadProbability_NoClamp(fromCell, toCell, params, windEffect) ==
    LET p0 == getFlammability(toCell.terrain) * (ProbScale \div 10)
        temperatureEffect == Max(0, params.temperature - 20)
        humidityEffect == Max(0, 100 - params.humidity)
        rainEffect == Max(0, 100 - params.rainLikelihood)
        p1 == (p0 * (50 + temperatureEffect)) \div 100
        p2 == (p1 * humidityEffect) \div 100
        p3 == (p2 * rainEffect) \div 100
        p4 == (p3 * (2000 + windEffect)) \div 2500
    IN  (p4 * (100 + fromCell.burnIntensity)) \div 200

\* calculateSpreadProbability without the wind boost
calculateSpreadProbability_NoWind(fromCell, toCell, params, windEffect) ==
    LET p0 == getFlammability(toCell.terrain) * (ProbScale \div 10)
        temperatureEffect == Max(0, params.temperature - 20)
        humidityEffect == Max(0, 100 - params.humidity)
        rainEffect == Max(0, 100 - params.rainLikelihood)
        p1 == (p0 * (50 + temperatureEffect)) \div 100
        p2 == (p1 * humidityEffect) \div 100
        p3 == (p2 * rainEffect) \div 100
        p5 == (p3 * (100 + fromCell.burnIntensity)) \div 200
    IN  Min(ProbScale, p5)

\* calculateSpreadProbability, in 1/ProbScale
calculateSpreadProbability(fromCell, toCell, params, windEffect) ==
    LET p0 == getFlammability(toCell.terrain) * (ProbScale \div 10)
        temperatureEffect == Max(0, params.temperature - 20)     \* fiftieths
        humidityEffect == Max(0, 100 - params.humidity)          \* hundredths
        rainEffect == Max(0, 100 - params.rainLikelihood)        \* hundredths
        p1 == (p0 * (50 + temperatureEffect)) \div 100
        p2 == (p1 * humidityEffect) \div 100
        p3 == (p2 * rainEffect) \div 100
        p4 == (p3 * (2000 + windEffect)) \div 2500
        p5 == (p4 * (100 + fromCell.burnIntensity)) \div 200
    IN  Min(ProbScale, p5)

\* The UNBURNED case of updateCellBurnState from neighbour i on; rnd[k] is the value
\* the next Math.random() call returns.
RECURSIVE SpreadFrom(_, _, _, _, _, _)
SpreadFrom(cell, neighbors, params, rnd, i, k) ==
    IF i > Len(neighbors) THEN cell
    ELSE IF neighbors[i].burnState = BURNING
         THEN LET windEffect == calculateWindEffect(neighbors[i].x, neighbors[i].y,
                                                    cell.x, cell.y, params.windDirection)
                  spreadProb == calculateSpreadProbability(neighbors[i], cell, params,
                                                           windEffect)
              IN  IF rnd[k] * 10 < spreadProb
                  THEN [cell EXCEPT !.burnState = BURNING,
                                    !.burnIntensity = 50 + rnd[k + 1] \div 2000,
                                    !.burnDuration = 0]
                  ELSE SpreadFrom(cell, neighbors, params, rnd, i + 1, k + 1)
         ELSE SpreadFrom(cell, neighbors, params, rnd, i + 1, k)

\* BurnOn that rekindles a cell instead of burning it out
BurnOn_Rekindle(cell) ==
    LET newDuration == cell.burnDuration + 1
        newIntensity == Max(0, cell.burnIntensity - 5)
        burnoutDuration == getFlammability(cell.terrain) * 2 + 10
    IN  IF newDuration >= burnoutDuration \/ newIntensity <= 10
        THEN [cell EXCEPT !.burnDuration = 0, !.burnIntensity = 100]
        ELSE [cell EXCEPT !.burnDuration = newDuration,
                          !.burnIntensity = newIntensity]

\* BurnOn with the intensity decaying by 0.04 per tick
BurnOn_SlowDecay(cell) ==
    LET newDuration == cell.burnDuration + 1
        newIntensity == Max(0, cell.burnIntensity - 4)
        burnoutDuration == getFlammability(cell.terrain) * 2 + 10
    IN  IF newDuration >= burnoutDuration \/ newIntensity <= 10
        THEN [cell EXCEPT !.burnDuration = newDuration,
                          !.burnState = BURNED,
                          !.burnIntensity = 0]
        ELSE [cell EXCEPT !.burnDuration = newDuration,
                          !.burnIntensity = newIntensity]

\* BurnOn with the burnout test newDuration > burnoutDuration
BurnOn_StrictDuration(cell) ==
    LET newDuration == cell.burnDuration + 1
        newIntensity == Max(0, cell.burnIntensity - 5)
        burnoutDuration == getFlammability(cell.terrain) * 2 + 10
    IN  IF newDuration > burnoutDuration \/ newIntensity <= 10
        THEN [cell EXCEPT !.burnDuration = newDuration,
                          !.burnState = BURNED,
                          !.burnIntensity = 0]
        ELSE [cell EXCEPT !.burnDuration = newDuration,
                          !.burnIntensity = newIntensity]

\* BurnOn with the intensity decaying by 0.1 per tick
BurnOn_FastDecay(cell) ==
    LET newDuration == cell.burnDuration + 1
        newIntensity == Max(0, cell.burnIntensity - 10)
        burnoutDuration == getFlammability(cell.terrain) * 2 + 10
    IN  IF newDuration >= burnoutDuration \/ newIntensity <= 10
        THEN [cell EXCEPT !.burnDuration = newDuration,
                          !.burnState = BURNED,
                          !.burnIntensity = 0]
        ELSE [cell EXCEPT !.burnDuration = newDuration,
                          !.burnIntensity = newIntensity]

\* The BURNING case of updateCellBurnState
BurnOn(cell) ==
    LET newDuration == cell.burnDuration + 1
        newIntensity == Max(0, cell.burnIntensity - 5)
        burnoutDuration == getFlammability(cell.terrain) * 2 + 10
    IN  IF newDuration >= burnoutDuration \/ newIntensity <= 10
        THEN [cell EXCEPT !.burnDuration = newDuration,
                          !.burnState = BURNED,
                          !.burnIntensity = 0]
        ELSE [cell EXCEPT !.burnDuration = newDuration,
                          !.burnIntensity = newIntensity]

\* updateCellBurnState refreshing the cell's humidity and temperature snapshot
updateCellBurnState_Resnapshot(cell, neighbors, params, rnd) ==
    LET fresh == [cell EXCEPT !.humidity = params.humidity,
                              !.temperature = params.temperature]
    IN  CASE cell.burnState = UNBURNED -> SpreadFrom(fresh, neighbors, params, rnd, 1, 1)
          [] cell.burnState = BURNING -> BurnOn(fresh)
          [] OTHER -> fresh

\* updateCellBurnState: the cell of the next grid
updateCellBurnState(cell, neighbors, params, rnd) ==
    CASE cell.burnState = UNBURNED -> SpreadFrom(cell, neighbors, params, rnd, 1, 1)
      [] cell.burnState = BURNING -> BurnOn(cell)
      [] OTHER -> cell

\* stepSimulation updating the grid in place: cell k (row-major) is computed from the
\* grid in which cells 0..k-1 are already advanced
RECURSIVE StepInPlace(_, _, _, _)
StepInPlace(gridData, params, rnds, k) ==
    IF k >= gridData.width * gridData.height THEN gridData
    ELSE LET x == k % gridData.width
             y == k \div gridData.width
             newCell == updateCellBurnState(gridData.cells[y][x],
                                            getNeighbors(gridData.cells, x, y),
                                            params, rnds[y][x])
         IN  StepInPlace([gridData EXCEPT !.cells[y][x] = newCell], params, rnds, k + 1)

stepSimulation_InPlace(gridData, params, rnds) == StepInPlace(gridData, params, rnds, 0)

\* stepSimulation; rnds[y][x] is the stream of random values drawn for cell (x, y)
stepSimulation(gridData, params, rnds) ==
    [gridData EXCEPT !.cells =
        [y \in 0..(gridData.height - 1) |->
            [x \in 0..(gridData.width - 1) |->
                updateCellBurnState(gridData.cells[y][x],
                                    getNeighbors(gridData.cells, x, y),
                                    params, rnds[y][x])]]]

\* igniteCell without the test that the cell is UNBURNED
igniteCell_AnyState(gridData, x, y) ==
    IF x >= 0 /\ x < gridData.width /\ y >= 0 /\ y < gridData.height
    THEN LET cell == gridData.cells[y][x]
         IN  IF getFlammability(cell.terrain) > 0
             THEN [gridData EXCEPT !.cells[y][x] =
                      [cell EXCEPT !.burnState = BURNING,
                                   !.burnIntensity = 100,
                                   !.burnDuration = 0]]
             ELSE gridData
    ELSE gridData

\* igniteCell without the test that the terrain is flammable
igniteCell_AnyTerrain(gridData, x, y) ==
    IF x >= 0 /\ x < gridData.width /\ y >= 0 /\ y < gridData.height
    THEN LET cell == gridData.cells[y][x]
         IN  IF cell.burnState = UNBURNED
             THEN [gridData EXCEPT !.cells[y][x] =
                      [cell EXCEPT !.burnState = BURNING,
                                   !.burnIntensity = 100,
                                   !.burnDuration = 0]]
             ELSE gridData
    ELSE gridData

\* igniteCell that starts the fire at the lowest intensity of a spread ignition
igniteCell_HalfIntensity(gridData, x, y) ==
    IF x >= 0 /\ x < gridData.width /\ y >= 0 /\ y < gridData.height
    THEN LET cell == gridData.cells[y][x]
         IN  IF cell.burnState = UNBURNED /\ getFlammability(cell.terrain) > 0
             THEN [gridData EXCEPT !.cells[y][x] =
                      [cell EXCEPT !.burnState = BURNING,
                                   !.burnIntensity = 50,
                                   !.burnDuration = 0]]
             ELSE gridData
    ELSE gridData

igniteCell(gridData, x, y) ==
    IF x >= 0 /\ x < gridData.width /\ y >= 0 /\ y < gridData.height
    THEN LET cell == gridData.cells[y][x]
         IN  IF cell.burnState = UNBURNED /\ getFlammability(cell.terrain) > 0
             THEN [gridData EXCEPT !.cells[y][x] =
                      [cell EXCEPT !.burnState = BURNING,
                                   !.burnIntensity = 100,
                                   !.burnDuration = 0]]
             ELSE gridData
    ELSE gridData

----------------------------------------------------------------------------
(* Spec: the core functions applied to bounded inputs *)

\* Index.tsx's initial simulationParams
DefaultParams ==
    [gridCellSize |-> 5, windSpeed |-> 15, windDirection |-> 90,
     temperature |-> 25, humidity |-> 30, rainLikelihood |-> 10]

\* The cell processAreaToGrid constructs at (x, y): UNBURNED, with a snapshot of the
\* wind vector (windSpeed * cos / sin of windDirection), humidity and temperature
NewCell(terrain, x, y, params) ==
    [terrain |-> terrain, burnState |-> UNBURNED, x |-> x, y |-> y,
     windX |-> (params.windSpeed * CosDeg(params.windDirection)) \div 1000,
     windY |-> (params.windSpeed * CosDeg(params.windDirection - 90)) \div 1000,
     humidity |-> params.humidity, temperature |-> params.temperature,
     burnIntensity |-> 0, burnDuration |-> 0]

UnitBounds == [north |-> 1, south |-> 0, east |-> 1, west |-> 0]

\* The GridData processSelectedArea builds from the cells of the given terrain
\* layout (layout[y][x])
NewGrid(layout, width, height, bounds, params) ==
    [cells |-> [y \in 0..(height - 1) |->
                   [x \in 0..(width - 1) |-> NewCell(layout[y][x], x, y, params)]],
     width |-> width, height |-> height, bounds |-> bounds,
     cellSize |-> params.gridCellSize]

\* Widest one-row grid that Spec starts from in every terrain layout
MaxWidth == 1

Layouts(width, height, terrains) ==
    [0..(height - 1) -> [0..(width - 1) -> terrains]]

\* The grids Spec starts from: every one-row layout up to MaxWidth; two-cell rows of
\* three terrains; three-cell rows (a cell two columns away from a fire); and a
\* 2 x 2 grid (diagonal neighbours)
CoreGrids ==
    UNION { { NewGrid(layout, w, 1, UnitBounds, DefaultParams) : layout \in Layouts(w, 1, TerrainType) }
            : w \in 1..MaxWidth }
    \cup { NewGrid(layout, 2, 1, UnitBounds, DefaultParams) :
             layout \in Layouts(2, 1, {FOREST, URBAN, WATER}) }
    \cup { NewGrid(layout, 3, 1, UnitBounds, DefaultParams) :
             layout \in { [y \in {0} |-> [x \in 0..2 |-> t]] : t \in {URBAN, WATER} } }
    \cup { NewGrid([y \in 0..1 |-> [x \in 0..1 |-> IF x = y THEN GRASS ELSE WATER]],
                   2, 2, UnitBounds, DefaultParams) }

\* Parameters handed to a tick: the defaults, saturated air, certain rain, and
\* values outside the sliders' ranges
ParamSet ==
    { DefaultParams,
      [DefaultParams EXCEPT !.humidity = 100],
      [DefaultParams EXCEPT !.rainLikelihood = 150],
      [DefaultParams EXCEPT !.windDirection = -450, !.temperature = 120,
                            !.humidity = -50, !.rainLikelihood = -50] }

\* A stream of Math.random() values: the first `fails` draws are just below 1, the
\* next two are `draw` (the ignition draw) and `r` (the intensity draw)
Stream(fails, draw, r) ==
    [k \in 1..9 |-> IF k <= fails THEN ProbScale - 1
                    ELSE IF k = fails + 1 THEN draw
                    ELSE IF k = fails + 2 THEN r
                    ELSE ProbScale - 1]

RandomStreams ==
    { Stream(9, 0, 0), Stream(0, 0, 0), Stream(0, 6000, 98000), Stream(1, 0, 0) }

CoreInit ==
    /\ grid \in CoreGrids
    /\ lastCall = [op |-> "init", x |-> 0, y |-> 0]
    /\ mapGrid = null
    /\ effGrid = null
    /\ indexGrid = null
    /\ isSimulationRunning = FALSE
    /\ simulationParams = DefaultParams
    /\ selectedBounds = null
    /\ isProcessing = FALSE
    /\ isSelecting = FALSE
    /\ selectionStart = null
    /\ pending = << >>
    /\ newest = null
    /\ sinceReset = "none"
    /\ ticksLeft = 0
    /\ probe = null

Positions(gridData) == (0..(gridData.width - 1)) \X (0..(gridData.height - 1))

HasBurningNeighbor(gridData, x, y) ==
    LET neighbors == getNeighbors(gridData.cells, x, y)
    IN  \E i \in 1..Len(neighbors) : neighbors[i].burnState = BURNING

\* The cells for which the values Math.random() returns in a tick matter: UNBURNED
\* with a BURNING neighbour, on terrain whose spread probability is not 0 whatever
\* the parameters (a draw is never below 0)
DrawingCells(gridData) ==
    { pos \in Positions(gridData) :
        /\ gridData.cells[pos[2]][pos[1]].burnState = UNBURNED
        /\ getFlammability(gridData.cells[pos[2]][pos[1]].terrain) > 0
        /\ HasBurningNeighbor(gridData, pos[1], pos[2]) }

\* The random values of one tick: any stream for every cell of DrawingCells; the
\* other cells get low values (the ones that ignite a cell when any do)
TickStreams(gridData) ==
    { [y \in 0..(gridData.height - 1) |->
          [x \in 0..(gridData.width - 1) |->
              IF <<x, y>> \in DOMAIN f THEN f[<<x, y>>] ELSE Stream(0, 0, 0)]]
      : f \in [DrawingCells(gridData) -> RandomStreams] }

\* handleResetSimulation's resetGrid with burnDuration left as it was
ResetGrid_KeepDuration(gridData) ==
    [gridData EXCEPT !.cells =
        [y \in DOMAIN gridData.cells |->
            [x \in DOMAIN gridData.cells[y] |->
                [gridData.cells[y][x] EXCEPT !.burnState = UNBURNED,
                                             !.burnIntensity = 0]]]]

\* handleResetSimulation's resetGrid
ResetGrid(gridData) ==
    [gridData EXCEPT !.cells =
        [y \in DOMAIN gridData.cells |->
            [x \in DOMAIN gridData.cells[y] |->
                [gridData.cells[y][x] EXCEPT !.burnState = UNBURNED,
                                             !.burnIntensity = 0,
                                             !.burnDuration = 0]]]]

\* newGrid = stepSimulation(gridData, simulationParams)
CoreTick ==
    /\ \E params \in ParamSet :
         \E rnds \in TickStreams(grid) :
            grid' = stepSimulation(grid, params, rnds)
    /\ lastCall' = [op |-> "tick", x |-> 0, y |-> 0]
    /\ UNCHANGED <<appVars, probe>>

\* Coordinates handed to igniteCell: every cell, and points outside each edge
IgniteCoords(gridData) ==
    Positions(gridData)
    \cup { <<-1, 0>>, <<gridData.width, 0>>, <<0, -1>>, <<0, gridData.height>> }

\* newGrid = igniteCell(gridData, x, y)
CoreIgnite ==
    /\ \E pos \in IgniteCoords(grid) :
         /\ grid' = igniteCell(grid, pos[1], pos[2])
         /\ lastCall' = [op |-> "ignite", x |-> pos[1], y |-> pos[2]]
    /\ UNCHANGED <<appVars, probe>>

\* handleResetSimulation's setGridData(resetGrid)
CoreReset ==
    /\ grid' = ResetGrid(grid)
    /\ lastCall' = [op |-> "reset", x |-> 0, y |-> 0]
    /\ UNCHANGED <<appVars, probe>>

CoreNext == CoreTick \/ CoreIgnite \/ CoreReset

Spec == CoreInit /\ [][CoreNext]_vars

NoBurning == \A pos \in Positions(grid) : grid.cells[pos[2]][pos[1]].burnState # BURNING

\* ENABLED <<CoreTick>>_vars: a tick changes the state when the last call was not a
\* tick, or when some cell is BURNING (its burnDuration grows or it burns out)
TickEnabled == lastCall.op # "tick" \/ ~NoBurning

\* Weak fairness of the tick, WF_vars(CoreTick) written out with TickEnabled and with
\* the steps of CoreNext that are ticks: while isSimulationRunning is true the 500 ms
\* interval of useSimulation keeps calling stepSimulation
TickFairness == []<>(~TickEnabled) \/ []<><<lastCall'.op = "tick">>_vars

\* The core under a running simulation
LiveSpec == CoreInit /\ [][CoreNext]_vars /\ TickFairness

----------------------------------------------------------------------------
(* AppSpec: Index, WildfireMap, useMapSelection and useSimulation.  Latitudes and   *)
(* longitudes are in hundredths of a degree.                                         *)

\* Rasterizations the model lets be in flight together
MaxInFlight == 2

\* Timer ticks the model lets happen in one behaviour
MaxTicks == 1

\* Where the mouse is pressed to select an area
PressPoints == { [lat |-> 0, lng |-> 0] }

\* Where the mouse is released: at the point where it was pressed, or away from it
SelectPoints == { [lat |-> 0, lng |-> 0], [lat |-> 1, lng |-> 5] }

\* Where the map is clicked while the simulation runs: in the first cell of a
\* selected area's grid, and on the area's east edge (outside the grid)
ClickPoints == { [lat |-> 1, lng |-> 0], [lat |-> 0, lng |-> 5] }

\* Terrains the tiles of the selected areas classify to
AppTerrains == {FOREST, WATER}

\* Math.ceil(a / b) for a >= 0, b > 0
CeilDiv(a, b) == (a + b - 1) \div b

\* processAreaToGrid's gridWidth and gridHeight: 111 km per degree; the areas lie at
\* the equator, where Math.cos of the mean latitude does not change the ceiling
GridDims(bounds, cellSize) ==
    LET latDiff == bounds.north - bounds.south
        lonDiff == bounds.east - bounds.west
    IN  <<CeilDiv(lonDiff * 111, 100 * cellSize), CeilDiv(latDiff * 111, 100 * cellSize)>>

\* finalizeSelection's bounds
SelectionBounds(start, end) ==
    [north |-> Max(start.lat, end.lat), south |-> Min(start.lat, end.lat),
     east |-> Max(start.lng, end.lng), west |-> Min(start.lng, end.lng)]

RemoveAt(seq, i) == SubSeq(seq, 1, i - 1) \o SubSeq(seq, i + 1, Len(seq))

Call(op) == [op |-> op, x |-> 0, y |-> 0]

AppInit ==
    /\ grid = null
    /\ lastCall = Call("init")
    /\ mapGrid = null
    /\ effGrid = null
    /\ indexGrid = null
    /\ isSimulationRunning = FALSE
    /\ simulationParams = DefaultParams
    /\ selectedBounds = null
    /\ isProcessing = FALSE
    /\ isSelecting = FALSE
    /\ selectionStart = null
    /\ pending = << >>
    /\ newest = null
    /\ sinceReset = "none"
    /\ ticksLeft = MaxTicks
    /\ probe = null

\* useMapSelection.handleMouseDown
MouseDown ==
    /\ Len(pending) < MaxInFlight
    /\ \E p \in PressPoints :
         IF ~isSimulationRunning
         THEN isSelecting' = TRUE /\ selectionStart' = p
         ELSE UNCHANGED <<isSelecting, selectionStart>>
    /\ lastCall' = Call("mousedown")
    /\ UNCHANGED <<grid, mapGrid, effGrid, indexGrid, isSimulationRunning,
                   simulationParams, selectedBounds, isProcessing, pending, newest,
                   sinceReset, ticksLeft, probe>>

\* useMapSelection.handleMouseUp -> finalizeSelection -> handleBoundsChange and
\* processSelectedArea up to its await.  When the canvas context cannot be created,
\* processAreaToGrid throws before it fetches and the finally clause runs at once.
\* processSelectedArea without its finally clause
AbortRasterization_NoFinally ==
    /\ isProcessing' = TRUE
    /\ lastCall' = Call("aborted")
    /\ UNCHANGED <<pending, newest>>

\* processSelectedArea when processAreaToGrid throws for want of a 2D context: no
\* tile has been requested, the catch clause logs the error and the finally clause
\* clears isProcessing
AbortRasterization ==
    /\ isProcessing' = FALSE
    /\ lastCall' = Call("aborted")
    /\ UNCHANGED <<pending, newest>>

MouseUp ==
    /\ isSelecting /\ selectionStart # null
    /\ \E p \in SelectPoints, ctxOk \in BOOLEAN :
         LET bounds == SelectionBounds(selectionStart, p)
             request == [bounds |-> bounds, params |-> simulationParams]
         IN  /\ selectedBounds' = bounds
             /\ IF ctxOk
                THEN /\ isProcessing' = TRUE
                     /\ pending' = Append(pending, request)
                     /\ newest' = request
                     /\ lastCall' = Call("mouseup")
                ELSE AbortRasterization
    /\ isSelecting' = FALSE
    /\ selectionStart' = null
    /\ UNCHANGED <<grid, mapGrid, effGrid, indexGrid, isSimulationRunning,
                   simulationParams, sinceReset, ticksLeft, probe>>

\* processSelectedArea after its await: processAreaToGrid resolved with the cells
\* classified from the tiles; setGridData and onGridDataChange take the new grid
RasterizeDone ==
    /\ \E i \in 1..Len(pending) :
         LET req == pending[i]
             dims == GridDims(req.bounds, req.params.gridCellSize)
         IN  /\ \E layout \in Layouts(dims[1], dims[2], AppTerrains) :
                  LET newGridData == NewGrid(layout, dims[1], dims[2], req.bounds,
                                             req.params)
                  IN  /\ mapGrid' = newGridData
                      /\ indexGrid' = newGridData
             /\ pending' = RemoveAt(pending, i)
    /\ isProcessing' = FALSE
    /\ lastCall' = Call("rasterized")
    /\ UNCHANGED <<grid, effGrid, isSimulationRunning, simulationParams, selectedBounds,
                   isSelecting, selectionStart, newest, sinceReset, ticksLeft, probe>>

\* WildfireMap renders with the gridData last set and useSimulation's effects run
\* again (gridData is among their dependencies): the interval is cleared and set
\* anew and the click listener is replaced, both now holding that gridData.  React
\* does this after the callback that called setGridData has returned.
Render ==
    /\ effGrid # mapGrid
    /\ effGrid' = mapGrid
    /\ lastCall' = Call("render")
    /\ UNCHANGED <<grid, mapGrid, indexGrid, isSimulationRunning, simulationParams,
                   selectedBounds, isProcessing, isSelecting, selectionStart, pending,
                   newest, sinceReset, ticksLeft, probe>>

\* Index.handleStartSimulation without its check of gridData
Start_NoGridCheck ==
    /\ isSimulationRunning' = TRUE
    /\ sinceReset' = IF sinceReset = "reset" THEN "started" ELSE sinceReset
    /\ lastCall' = Call("start")
    /\ UNCHANGED <<grid, mapGrid, effGrid, indexGrid, simulationParams, selectedBounds,
                   isProcessing, isSelecting, selectionStart, pending, newest, ticksLeft,
                   probe>>

\* Index.handleStartSimulation
Start ==
    /\ IF indexGrid = null
       THEN UNCHANGED <<isSimulationRunning, sinceReset>>
       ELSE /\ isSimulationRunning' = TRUE
            /\ sinceReset' = IF sinceReset = "reset" THEN "started" ELSE sinceReset
    /\ lastCall' = Call("start")
    /\ UNCHANGED <<grid, mapGrid, effGrid, indexGrid, simulationParams, selectedBounds,
                   isProcessing, isSelecting, selectionStart, pending, newest, ticksLeft,
                   probe>>

\* Index.handlePauseSimulation
Pause ==
    /\ isSimulationRunning' = FALSE
    /\ lastCall' = Call("pause")
    /\ UNCHANGED <<grid, mapGrid, effGrid, indexGrid, simulationParams, selectedBounds,
                   isProcessing, isSelecting, selectionStart, pending, newest,
                   sinceReset, ticksLeft, probe>>

\* Index.handleResetSimulation: Index's gridData is reset; WildfireMap's is not a prop
\* of Index's and stays as it is
Reset ==
    /\ isSimulationRunning' = FALSE
    /\ indexGrid' = IF indexGrid # null THEN ResetGrid(indexGrid) ELSE indexGrid
    /\ sinceReset' = "reset"
    /\ lastCall' = Call("reset")
    /\ UNCHANGED <<grid, mapGrid, effGrid, simulationParams, selectedBounds,
                   isProcessing, isSelecting, selectionStart, pending, newest,
                   ticksLeft, probe>>

\* useSimulation's setInterval callback: gridData is the one of the render whose
\* effect set the interval
TimerTick ==
    /\ isSimulationRunning /\ effGrid # null
    /\ ticksLeft > 0
    /\ \E rnds \in TickStreams(effGrid) :
         LET newGrid == stepSimulation(effGrid, simulationParams, rnds)
         IN  /\ mapGrid' = newGrid
             /\ indexGrid' = newGrid
    /\ ticksLeft' = ticksLeft - 1
    /\ sinceReset' = IF sinceReset = "started" THEN "ticked" ELSE sinceReset
    /\ lastCall' = Call("tick")
    /\ UNCHANGED <<grid, effGrid, isSimulationRunning, simulationParams, selectedBounds,
                   isProcessing, isSelecting, selectionStart, pending, newest, probe>>

\* useSimulation.handleMapClick: gridData is the one of the render whose effect
\* registered the listener
MapClick ==
    /\ isSimulationRunning /\ effGrid # null
    /\ \E p \in ClickPoints :
         LET bounds == effGrid.bounds
             degenerate == bounds.east = bounds.west \/ bounds.north = bounds.south
             gridX == IF degenerate THEN -1
                      ELSE ((p.lng - bounds.west) * effGrid.width)
                              \div (bounds.east - bounds.west)
             gridY == IF degenerate THEN -1
                      ELSE ((bounds.north - p.lat) * effGrid.height)
                              \div (bounds.north - bounds.south)
         IN  IF gridX >= 0 /\ gridX < effGrid.width /\ gridY >= 0 /\ gridY < effGrid.height
             THEN LET newGrid == igniteCell(effGrid, gridX, gridY)
                  IN  /\ mapGrid' = newGrid
                      /\ indexGrid' = newGrid
                      /\ sinceReset' = IF sinceReset = "none" THEN "none" ELSE "ignited"
                      /\ lastCall' = [op |-> "click", x |-> gridX, y |-> gridY]
             ELSE /\ UNCHANGED <<mapGrid, indexGrid, sinceReset>>
                  /\ lastCall' = Call("missed")
    /\ UNCHANGED <<grid, effGrid, isSimulationRunning, simulationParams, selectedBounds,
                   isProcessing, isSelecting, selectionStart, pending, newest, ticksLeft,
                   probe>>

AppNext ==
    \/ MouseDown
    \/ MouseUp
    \/ RasterizeDone
    \/ Render
    \/ Start
    \/ Pause
    \/ Reset
    \/ TimerTick
    \/ MapClick

AppSpec == AppInit /\ [][AppNext]_vars

----------------------------------------------------------------------------
(* tileProcessor.ts: processAreaToGrid and the click-to-cell conversion of          *)
(* useSimulation.ts.  Latitudes and longitudes are in hundredths of a degree.       *)

\* processAreaToGrid asks for the tiles of zoom level 16
TileZoom == 16

\* cellLat and cellLon of the cell at (x, y)
CellCentre(bounds, gridWidth, gridHeight, x, y) ==
    [lat |-> Frac(2 * gridHeight * bounds.south + (2 * y + 1) * (bounds.north - bounds.south),
                  2 * gridHeight),
     lon |-> Frac(2 * gridWidth * bounds.west + (2 * x + 1) * (bounds.east - bounds.west),
                  2 * gridWidth)]

\* The tile sampleTerrainAtLocation looks for
CellTile(bounds, gridWidth, gridHeight, x, y) ==
    LET centre == CellCentre(bounds, gridWidth, gridHeight, x, y)
    IN  latLonToTile(centre.lat, centre.lon, TileZoom)

\* useSimulation.handleMapClick, its conversion of map coordinates to grid
\* coordinates, for a click at a point given as fractions: relativeY counts from the
\* north edge
ClickCell(bounds, width, height, lat, lng) ==
    [x |-> ((lng.n - bounds.west * lng.d) * width)
               \div (lng.d * (bounds.east - bounds.west)),
     y |-> ((bounds.north * lat.d - lat.n) * height)
               \div (lat.d * (bounds.north - bounds.south))]

\* processAreaToGrid after its await: the cells, classified from the valid tiles (all
\* 49 pixels around the cell centre are read; their average is the tile's colour)
processAreaToGrid(bounds, cellSize, params, valid, images) ==
    LET dims == GridDims(bounds, cellSize)
        gridWidth == dims[1]
        gridHeight == dims[2]
        terrainType(x, y) ==
            LET tileCoord == CellTile(bounds, gridWidth, gridHeight, x, y)
                hasTile == \E i \in DOMAIN valid : valid[i] = tileCoord
            IN  sampleTerrainAtLocation(hasTile, 49,
                                        IF hasTile THEN images[tileCoord] ELSE null)
    IN  [cells |-> [y \in 0..(gridHeight - 1) |->
                       [x \in 0..(gridWidth - 1) |->
                           NewCell(terrainType(x, y), x, y, params)]],
         width |-> gridWidth, height |-> gridHeight]

----------------------------------------------------------------------------
(* FnSpec: single calls of the pure functions.  probe is [op, arg, done, out]: the  *)
(* function, its arguments, whether it has been called, and what it returned.       *)

\* Largest side of the grids handed to getNeighbors and stepSimulation
MaxSide == 3

\* Channel values of the colours handed to classifyTerrain
ColourLevels == {0, 40, 80, 100, 120, 150, 180, 255}

Colours == [r : ColourLevels, g : ColourLevels, b : ColourLevels]

\* Wind directions in degrees: the slider's range and values outside it
WindDirections == {-450, -90, 0, 45, 90, 135, 180, 225, 270, 315, 360, 405, 720}

\* Offsets (dx, dy) from a cell to its neighbours
Offsets == { Directions[i] : i \in 1..Len(Directions) }

\* burnIntensity of a BURNING cell: above 0.1 (else the cell is BURNED), at most 1.0
BurningIntensities == {11, 50, 100}

Temperatures == {-10, 25, 120}
Humidities == {-50, 30, 100, 150}
RainLikelihoods == {-50, 10, 100, 150}

Input(op, arg) == [op |-> op, arg |-> arg, done |-> FALSE, out |-> null]

ClassifyInputs == { Input("classifyTerrain", c) : c \in Colours }

SampleInputs ==
    { Input("sampleTerrainAtLocation", a) :
        a \in [hasTile : BOOLEAN, samples : {0, 49},
               avg : { [r |-> 0, g |-> 0, b |-> 255], [r |-> 150, g |-> 150, b |-> 150] }] }

WindInputs ==
    { Input("calculateWindEffect", a) :
        a \in [offset : Offsets, windDirection : WindDirections] }

SpreadInputs ==
    { Input("calculateSpreadProbability", a) :
        a \in [terrain : TerrainType, burnIntensity : BurningIntensities,
               temperature : Temperatures, humidity : Humidities,
               rainLikelihood : RainLikelihoods,
               offset : { <<-1, 0>>, <<1, 1>> },
               windDirection : {-450, 0, 90, 225, 270, 720}] }

BothWaysInputs ==
    { Input("spreadBothWays", a) :
        a \in [terrain : TerrainType, burnIntensity : BurningIntensities,
               temperature : Temperatures, humidity : Humidities,
               rainLikelihood : RainLikelihoods, offset : Offsets] }

\* A grid of FOREST cells in which the cells at the positions of burning are BURNING
BurningGrid(width, height, burning, intensity) ==
    LET fresh == NewGrid([y \in 0..(height - 1) |-> [x \in 0..(width - 1) |-> FOREST]],
                         width, height, UnitBounds, DefaultParams)
    IN  [fresh EXCEPT !.cells =
            [y \in 0..(height - 1) |->
                [x \in 0..(width - 1) |->
                    IF <<x, y>> \in burning
                    THEN [fresh.cells[y][x] EXCEPT !.burnState = BURNING,
                                                   !.burnIntensity = intensity]
                    ELSE fresh.cells[y][x]]]]

NeighborInputs ==
    { Input("getNeighbors", a) :
        a \in UNION { [gridData : {BurningGrid(w, h, {}, 0)},
                       x : 0..(w - 1), y : 0..(h - 1)] :
                      <<w, h>> \in (1..MaxSide) \X (1..MaxSide) } }

\* One or two BURNING neighbours around the UNBURNED centre of a 3 x 3 grid
UpdateInputs ==
    { Input("updateCellBurnState", a) :
        a \in [gridData : { BurningGrid(3, 3, {<<1 + o1[1], 1 + o1[2]>>,
                                               <<1 + o2[1], 1 + o2[2]>>}, 100) :
                              o1 \in Offsets, o2 \in Offsets },
               x : {1}, y : {1},
               rnd : { Stream(0, 0, 0), Stream(0, 3000, 98000), Stream(1, 0, 0),
                       Stream(9, 0, 0) }] }

\* The cells of one edge of a width x height grid
Edges(width, height) ==
    { { pos \in (0..(width - 1)) \X (0..(height - 1)) : pos[1] = 0 },
      { pos \in (0..(width - 1)) \X (0..(height - 1)) : pos[1] = width - 1 },
      { pos \in (0..(width - 1)) \X (0..(height - 1)) : pos[2] = 0 },
      { pos \in (0..(width - 1)) \X (0..(height - 1)) : pos[2] = height - 1 } }

\* Grids with one edge on fire
StepInputs ==
    { Input("stepSimulation", a) :
        a \in UNION { [gridData : { BurningGrid(w, h, e, 100) : e \in Edges(w, h) }] :
                      <<w, h>> \in (1..MaxSide) \X (1..MaxSide) } }

\* Parameters as the sliders leave them after the grid was created with the default
\* ones: the defaults themselves, and hot, dry and windy from the west
TickParams ==
    { DefaultParams,
      [gridCellSize |-> 5, windSpeed |-> 40, windDirection |-> 270,
       temperature |-> 50, humidity |-> 0, rainLikelihood |-> 0] }

\* The grid with other values in the cells' windX, windY, humidity and temperature
Resnapshot(gridData) ==
    [gridData EXCEPT !.cells =
        [y \in DOMAIN gridData.cells |->
            [x \in DOMAIN gridData.cells[y] |->
                [gridData.cells[y][x] EXCEPT !.windX = 0 - x, !.windY = 7 + y,
                                             !.humidity = 100, !.temperature = -10]]]]

\* Grids with one edge on fire, parameters, and one random stream for all cells
SnapshotInputs ==
    { Input("stepSimulation snapshots", a) :
        a \in UNION { [gridData : { BurningGrid(w, h, e, 100) : e \in Edges(w, h) },
                       params : TickParams,
                       rnd : {Stream(0, 0, 0), Stream(0, 3000, 98000)}] :
                      <<w, h>> \in (1..MaxSide) \X (1..MaxSide) } }

\* Parameters with the air saturated or rain certain: humidity or rain likelihood
\* at or above 100, with every temperature and the wind from two sides
WetParams ==
    { [DefaultParams EXCEPT !.humidity = h, !.rainLikelihood = r,
                            !.temperature = t, !.windDirection = w] :
        h \in Humidities, r \in RainLikelihoods, t \in Temperatures, w \in {90, 270} }
    \ { q \in [gridCellSize : {5}, windSpeed : {15}, windDirection : {90, 270},
                temperature : Temperatures, humidity : Humidities,
                rainLikelihood : RainLikelihoods] :
           q.humidity < 100 /\ q.rainLikelihood < 100 }

\* A 3 x 3 grid whose centre cell has the given terrain, with one or with all eight
\* of its neighbours BURNING; the random values would ignite at any probability
\* above 0
WetInputs ==
    { Input("updateCellBurnState wet", a) :
        a \in [gridData : { [BurningGrid(3, 3, burning, i) EXCEPT
                                 !.cells[1][1].terrain = terrain] :
                               burning \in { {<<0, 1>>},
                                             { <<1 + o[1], 1 + o[2]>> : o \in Offsets } },
                               i \in BurningIntensities, terrain \in TerrainType },
               x : {1}, y : {1}, params : WetParams, rnd : {Stream(0, 0, 0)}] }

\* Bounding boxes around latitude 0, longitude 0, in hundredths of a degree (a
\* zoom 16 tile is 0.55 hundredths wide), and the zoom levels
TileAreas ==
    { b \in [north : {0, 1}, south : {-1, 0}, east : {0, 1}, west : {-1, 0}] :
        b.north >= b.south /\ b.east >= b.west }

TileZooms == {15, 16}

TileInputs ==
    { Input("getTilesForBounds", a) : a \in [bounds : TileAreas, zoom : TileZooms] }

\* Areas of one to three hundredths of a degree each way, on either side of and
\* across latitude 0 and longitude 0, and the cell sizes in km
CoverAreas ==
    { b \in [north : 0..2, south : -1..1, east : 0..2, west : -1..1] :
        b.north > b.south /\ b.east > b.west }

CoverCellSizes == {1, 2}

CoverInputs ==
    { Input("processAreaToGrid tiles", a) :
        a \in [bounds : CoverAreas, cellSize : CoverCellSizes] }

ProbeInputs ==
    ClassifyInputs \cup SampleInputs \cup WindInputs \cup SpreadInputs
    \cup BothWaysInputs \cup NeighborInputs \cup UpdateInputs \cup StepInputs
    \cup TileInputs \cup SnapshotInputs \cup WetInputs
    \cup CoverInputs

FnInit ==
    /\ probe \in ProbeInputs
    /\ grid = null
    /\ lastCall = Call("init")
    /\ mapGrid = null
    /\ effGrid = null
    /\ indexGrid = null
    /\ isSimulationRunning = FALSE
    /\ simulationParams = DefaultParams
    /\ selectedBounds = null
    /\ isProcessing = FALSE
    /\ isSelecting = FALSE
    /\ selectionStart = null
    /\ pending = << >>
    /\ newest = null
    /\ sinceReset = "none"
    /\ ticksLeft = 0

\* The call of probe.op returns result
Return(op, result) ==
    /\ probe.op = op
    /\ ~probe.done
    /\ probe' = [probe EXCEPT !.done = TRUE, !.out = result]
    /\ UNCHANGED <<grid, lastCall, appVars>>

CallClassifyTerrain ==
    /\ probe.op = "classifyTerrain"
    /\ Return("classifyTerrain", classifyTerrain(probe.arg.r, probe.arg.g, probe.arg.b))

CallSampleTerrain ==
    /\ probe.op = "sampleTerrainAtLocation"
    /\ Return("sampleTerrainAtLocation",
              sampleTerrainAtLocation(probe.arg.hasTile, probe.arg.samples, probe.arg.avg))

\* The BURNING neighbour at the given offset from the cell at (1, 1)
SourceCell(offset, intensity, params) ==
    [NewCell(FOREST, 1 + offset[1], 1 + offset[2], params)
        EXCEPT !.burnState = BURNING, !.burnIntensity = intensity]

\* The parameters of a probe
ProbeParams(a, windDirection) ==
    [DefaultParams EXCEPT !.temperature = a.temperature, !.humidity = a.humidity,
                          !.rainLikelihood = a.rainLikelihood,
                          !.windDirection = windDirection]

\* calculateWindEffect from the neighbour at the offset to the cell at (1, 1)
CallWindEffect ==
    /\ probe.op = "calculateWindEffect"
    /\ Return("calculateWindEffect",
              calculateWindEffect(1 + probe.arg.offset[1], 1 + probe.arg.offset[2], 1, 1,
                                  probe.arg.windDirection))

\* spreadProb as updateCellBurnState computes it for the neighbour at the offset
SpreadProbFor(a, windDirection) ==
    LET params == ProbeParams(a, windDirection)
        neighbor == SourceCell(a.offset, a.burnIntensity, params)
        cell == NewCell(a.terrain, 1, 1, params)
        windEffect == calculateWindEffect(neighbor.x, neighbor.y, cell.x, cell.y,
                                          params.windDirection)
    IN  calculateSpreadProbability(neighbor, cell, params, windEffect)

CallSpreadProbability ==
    /\ probe.op = "calculateSpreadProbability"
    /\ Return("calculateSpreadProbability", SpreadProbFor(probe.arg, probe.arg.windDirection))

\* The direction from the neighbour at the offset to the cell, in 0..359 degrees
TravelDirection(offset) == JsMod(Atan2Deg(-offset[2], -offset[1]) + 360, 360)

\* spreadProb with the wind blowing from the neighbour to the cell, and with the wind
\* blowing the opposite way
CallSpreadBothWays ==
    /\ probe.op = "spreadBothWays"
    /\ Return("spreadBothWays",
              [with |-> SpreadProbFor(probe.arg, TravelDirection(probe.arg.offset)),
               against |-> SpreadProbFor(probe.arg,
                                         (TravelDirection(probe.arg.offset) + 180) % 360)])

\* The coordinates of the cells of a sequence
Coords(cellSeq) == [i \in 1..Len(cellSeq) |-> <<cellSeq[i].x, cellSeq[i].y>>]

CallGetNeighbors ==
    /\ probe.op = "getNeighbors"
    /\ Return("getNeighbors",
              Coords(getNeighbors(probe.arg.gridData.cells, probe.arg.x, probe.arg.y)))

CallUpdateCell ==
    /\ probe.op = "updateCellBurnState"
    /\ Return("updateCellBurnState",
              updateCellBurnState(probe.arg.gridData.cells[probe.arg.y][probe.arg.x],
                                  getNeighbors(probe.arg.gridData.cells,
                                               probe.arg.x, probe.arg.y),
                                  DefaultParams, probe.arg.rnd))

\* stepSimulation with random values that ignite every cell fire can spread to
CallStepSimulation ==
    /\ probe.op = "stepSimulation"
    /\ Return("stepSimulation",
              stepSimulation(probe.arg.gridData, DefaultParams,
                             [y \in 0..(probe.arg.gridData.height - 1) |->
                                 [x \in 0..(probe.arg.gridData.width - 1) |->
                                     Stream(0, 0, 0)]]))

\* stepSimulation on a grid and on the same grid with other snapshot fields, under
\* the same parameters and random values
CallStepSnapshots ==
    /\ probe.op = "stepSimulation snapshots"
    /\ LET rnds == [y \in 0..(probe.arg.gridData.height - 1) |->
                       [x \in 0..(probe.arg.gridData.width - 1) |-> probe.arg.rnd]]
       IN  Return("stepSimulation snapshots",
                  [plain |-> stepSimulation(probe.arg.gridData, probe.arg.params, rnds),
                   other |-> stepSimulation(Resnapshot(probe.arg.gridData),
                                            probe.arg.params, rnds)])

\* updateCellBurnState of the centre cell under wet parameters, and igniteCell on
\* the same cell
CallUpdateCellWet ==
    /\ probe.op = "updateCellBurnState wet"
    /\ Return("updateCellBurnState wet",
              [updated |-> updateCellBurnState(
                               probe.arg.gridData.cells[probe.arg.y][probe.arg.x],
                               getNeighbors(probe.arg.gridData.cells,
                                            probe.arg.x, probe.arg.y),
                               probe.arg.params, probe.arg.rnd),
               ignited |-> igniteCell(probe.arg.gridData, probe.arg.x, probe.arg.y)])

\* processAreaToGrid when every fetch loads a tile of water: the tiles it asks
\* for and the grid it returns
CallProcessAreaTiles ==
    /\ probe.op = "processAreaToGrid tiles"
    /\ LET tiles == getTilesForBounds(probe.arg.bounds, TileZoom)
           images == [t \in { tiles[i] : i \in DOMAIN tiles } |-> [r |-> 0, g |-> 0, b |-> 80]]
       IN  Return("processAreaToGrid tiles",
                  [tiles |-> tiles,
                   grid |-> processAreaToGrid(probe.arg.bounds, probe.arg.cellSize,
                                              DefaultParams, tiles, images)])

CallGetTilesForBounds ==
    /\ probe.op = "getTilesForBounds"
    /\ Return("getTilesForBounds", getTilesForBounds(probe.arg.bounds, probe.arg.zoom))

FnNext ==
    \/ CallClassifyTerrain
    \/ CallSampleTerrain
    \/ CallWindEffect
    \/ CallSpreadProbability
    \/ CallSpreadBothWays
    \/ CallGetNeighbors
    \/ CallUpdateCell
    \/ CallStepSimulation
    \/ CallGetTilesForBounds
    \/ CallStepSnapshots
    \/ CallUpdateCellWet
    \/ CallProcessAreaTiles

FnSpec == FnInit /\ [][FnNext]_vars

----------------------------------------------------------------------------
(* RasterSpec: one call of processAreaToGrid, tile fetch by tile fetch *)

\* The area rasterized: a hundredth of a degree each way, north-east of latitude 0,
\* longitude 0. It is covered by 2 x 3 tiles; at cell size 1 km its grid is 2 x 2 and
\* the four cell centres lie in four different tiles.
RasterBounds == [north |-> 1, south |-> 0, east |-> 1, west |-> 0]

RasterCellSizes == {1, 2}

\* What the tile server holds: every pixel of a tile has one colour, water for all
\* tiles, or built-up and water tiles in a chequerboard
TileImages ==
    { [t \in [x : 32768..32769, y : 32766..32768] |-> [r |-> 0, g |-> 0, b |-> 80]],
      [t \in [x : 32768..32769, y : 32766..32768] |->
          IF (t.x + t.y) % 2 = 0 THEN [r |-> 80, g |-> 80, b |-> 80]
          ELSE [r |-> 0, g |-> 0, b |-> 80]] }

\* The arguments of processAreaToGrid, whether the browser grants a 2D context,
\* and the state of each tile's image request: "idle" before img.src is set
RasterInputs ==
    { [op |-> "processAreaToGrid", arg |-> a, done |-> FALSE, out |-> null,
       fetch |-> [i \in DOMAIN getTilesForBounds(a.bounds, TileZoom) |-> "idle"]] :
        a \in [bounds : {RasterBounds}, cellSize : RasterCellSizes,
               params : {DefaultParams}, ctx : BOOLEAN, images : TileImages] }

RasterInit ==
    /\ probe \in RasterInputs
    /\ grid = null
    /\ lastCall = Call("init")
    /\ mapGrid = null
    /\ effGrid = null
    /\ indexGrid = null
    /\ isSimulationRunning = FALSE
    /\ simulationParams = DefaultParams
    /\ selectedBounds = null
    /\ isProcessing = FALSE
    /\ isSelecting = FALSE
    /\ selectionStart = null
    /\ pending = << >>
    /\ newest = null
    /\ sinceReset = "none"
    /\ ticksLeft = 0

\* Promise.all resolving on the first settled fetch instead of the last
FetchesSettled_Any(fetch) == \E i \in DOMAIN fetch : fetch[i] \in {"loaded", "failed"}

\* await Promise.all(...): every tile's async function has returned, with the image
\* or, from its catch clause, with null
FetchesSettled(fetch) == \A i \in DOMAIN fetch : fetch[i] \in {"loaded", "failed"}

\* validTiles where one failed fetch discards every tile
validTiles_AllOrNothing(tiles, fetch) ==
    IF \E i \in DOMAIN tiles : fetch[i] # "loaded" THEN << >> ELSE tiles

\* validTiles: tileImages without the nulls of the failed fetches
validTiles(tiles, fetch) ==
    LET loaded(t) == \E i \in DOMAIN tiles : tiles[i] = t /\ fetch[i] = "loaded"
    IN  SelectSeq(tiles, loaded)

\* canvas.getContext('2d') returns null: processAreaToGrid throws; no img.src is set
ContextFails ==
    /\ probe.op = "processAreaToGrid"
    /\ ~probe.done
    /\ ~probe.arg.ctx
    /\ probe' = [probe EXCEPT !.done = TRUE,
                              !.out = [error |-> "Could not create canvas context"]]
    /\ UNCHANGED <<grid, lastCall, appVars>>

\* tiles.map(async ...) runs every async function up to its await: every img.src is set
StartFetches ==
    /\ probe.op = "processAreaToGrid"
    /\ ~probe.done
    /\ probe.arg.ctx
    /\ \A i \in DOMAIN probe.fetch : probe.fetch[i] = "idle"
    /\ probe' = [probe EXCEPT !.fetch = [i \in DOMAIN probe.fetch |-> "pending"]]
    /\ UNCHANGED <<grid, lastCall, appVars>>

\* img.onload of one tile
TileLoads ==
    \E i \in DOMAIN probe.fetch :
        /\ probe.fetch[i] = "pending"
        /\ probe' = [probe EXCEPT !.fetch[i] = "loaded"]
        /\ UNCHANGED <<grid, lastCall, appVars>>

\* img.onerror of one tile: the catch clause warns and returns null
TileFails ==
    \E i \in DOMAIN probe.fetch :
        /\ probe.fetch[i] = "pending"
        /\ probe' = [probe EXCEPT !.fetch[i] = "failed"]
        /\ UNCHANGED <<grid, lastCall, appVars>>

\* Promise.all resolves; the cells are created and processAreaToGrid resolves
CreateCells ==
    /\ probe.op = "processAreaToGrid"
    /\ ~probe.done
    /\ probe.arg.ctx
    /\ FetchesSettled(probe.fetch)
    /\ probe' = [probe EXCEPT
           !.done = TRUE,
           !.out = processAreaToGrid(probe.arg.bounds, probe.arg.cellSize, probe.arg.params,
                                     validTiles(getTilesForBounds(probe.arg.bounds, TileZoom),
                                                probe.fetch),
                                     probe.arg.images)]
    /\ UNCHANGED <<grid, lastCall, appVars>>

RasterNext ==
    \/ ContextFails
    \/ StartFetches
    \/ TileLoads
    \/ TileFails
    \/ CreateCells

RasterSpec == RasterInit /\ [][RasterNext]_vars

----------------------------------------------------------------------------
(* Properties of the core functions (Spec) *)

CellAt(gridData, pos) == gridData.cells[pos[2]][pos[1]]

InGrid(gridData, x, y) ==
    x >= 0 /\ x < gridData.width /\ y >= 0 /\ y < gridData.height

Rank(burnState) ==
    CASE burnState = UNBURNED -> 0
      [] burnState = BURNING -> 1
      [] OTHER -> 2

SameFrame(g1, g2) ==
    /\ g1.width = g2.width
    /\ g1.height = g2.height
    /\ g1.bounds = g2.bounds
    /\ g1.cellSize = g2.cellSize

\* C1: across any sequence of ticks and ignitions every cell's burn state only moves
\* forward UNBURNED -> BURNING -> BURNED; a BURNED cell stays BURNED.
C1_BurnStateMonotone ==
    [][lastCall'.op \in {"tick", "ignite"} =>
         \A pos \in Positions(grid) :
            /\ CellAt(grid', pos).burnState \in BurnState
            /\ Rank(CellAt(grid', pos).burnState) >= Rank(CellAt(grid, pos).burnState)]_vars

\* A BURNED cell was handed to igniteCell and is still BURNED
C1_Witness ==
    /\ lastCall.op = "ignite"
    /\ InGrid(grid, lastCall.x, lastCall.y)
    /\ CellAt(grid, <<lastCall.x, lastCall.y>>).burnState = BURNED

\* C2: a tick is a simultaneous update: an UNBURNED cell with no BURNING neighbour in
\* the pre-tick grid is still UNBURNED after the tick.
C2_SimultaneousUpdate ==
    [][lastCall'.op = "tick" =>
         \A pos \in Positions(grid) :
            (/\ CellAt(grid, pos).burnState = UNBURNED
             /\ ~HasBurningNeighbor(grid, pos[1], pos[2]))
            => CellAt(grid', pos) = CellAt(grid, pos)]_vars

\* After a tick, a flammable cell is UNBURNED although a neighbour ignited during that
\* tick (BURNING with burnDuration 0) and no neighbour was BURNING before it
C2_Witness ==
    /\ lastCall.op = "tick"
    /\ \E pos \in Positions(grid) :
          LET neighbors == getNeighbors(grid.cells, pos[1], pos[2])
          IN  /\ CellAt(grid, pos).burnState = UNBURNED
              /\ getFlammability(CellAt(grid, pos).terrain) > 0
              /\ \E i \in 1..Len(neighbors) :
                    neighbors[i].burnState = BURNING /\ neighbors[i].burnDuration = 0
              /\ \A i \in 1..Len(neighbors) :
                    \/ neighbors[i].burnState = UNBURNED
                    \/ neighbors[i].burnState = BURNING /\ neighbors[i].burnDuration = 0

\* The precondition of an effective ignition at (x, y)
Ignitable(gridData, x, y) ==
    /\ InGrid(gridData, x, y)
    /\ gridData.cells[y][x].burnState = UNBURNED
    /\ gridData.cells[y][x].terrain # WATER

\* C3: igniteCell on an in-bounds UNBURNED cell of flammable terrain makes that cell
\* BURNING with burnIntensity 1.0 and burnDuration 0 and leaves every other cell, the
\* width, the height, the bounds and the cell size as they were.
C3_IgniteEffect ==
    [][(lastCall'.op = "ignite" /\ Ignitable(grid, lastCall'.x, lastCall'.y)) =>
         LET target == <<lastCall'.x, lastCall'.y>>
         IN  /\ CellAt(grid', target).burnState = BURNING
             /\ CellAt(grid', target).burnIntensity = 100
             /\ CellAt(grid', target).burnDuration = 0
             /\ SameFrame(grid', grid)
             /\ DOMAIN grid'.cells = DOMAIN grid.cells
             /\ \A y \in DOMAIN grid.cells : DOMAIN grid'.cells[y] = DOMAIN grid.cells[y]
             /\ \A pos \in Positions(grid) \ {target} :
                   CellAt(grid', pos) = CellAt(grid, pos)]_vars

\* igniteCell has just set a cell BURNING
C3_Witness ==
    /\ lastCall.op = "ignite"
    /\ InGrid(grid, lastCall.x, lastCall.y)
    /\ CellAt(grid, <<lastCall.x, lastCall.y>>).burnState = BURNING
    /\ CellAt(grid, <<lastCall.x, lastCall.y>>).burnIntensity = 100
    /\ CellAt(grid, <<lastCall.x, lastCall.y>>).burnDuration = 0
    /\ grid.width > 1

\* C4: igniteCell returns its input when (x, y) is out of bounds, or the cell is
\* BURNING or BURNED, or the cell's terrain is WATER.
C4_IgniteNoOp ==
    [][(lastCall'.op = "ignite" /\ ~Ignitable(grid, lastCall'.x, lastCall'.y))
         => grid' = grid]_vars

\* igniteCell was called on an UNBURNED WATER cell of a grid in which a fire burns
C4_Witness ==
    /\ lastCall.op = "ignite"
    /\ InGrid(grid, lastCall.x, lastCall.y)
    /\ CellAt(grid, <<lastCall.x, lastCall.y>>).terrain = WATER
    /\ CellAt(grid, <<lastCall.x, lastCall.y>>).burnState = UNBURNED
    /\ \E pos \in Positions(grid) : CellAt(grid, pos).burnState = BURNING

\* C5: ignition is idempotent: igniteCell(igniteCell(grid, x, y), x, y) equals
\* igniteCell(grid, x, y) for every grid and every (x, y), and igniteCell on a cell
\* that is BURNING changes nothing, however many ticks the cell has burnt.
C5_IgniteIdempotent ==
    [][/\ \A pos \in IgniteCoords(grid) :
             igniteCell(igniteCell(grid, pos[1], pos[2]), pos[1], pos[2])
                = igniteCell(grid, pos[1], pos[2])
       /\ (/\ lastCall'.op = "ignite"
           /\ InGrid(grid, lastCall'.x, lastCall'.y)
           /\ CellAt(grid, <<lastCall'.x, lastCall'.y>>).burnState = BURNING)
          => grid' = grid]_vars

\* igniteCell was called on a cell that had been burning for some ticks, and the cell
\* still has the duration and the decayed intensity of those ticks
C5_Witness ==
    /\ lastCall.op = "ignite"
    /\ InGrid(grid, lastCall.x, lastCall.y)
    /\ CellAt(grid, <<lastCall.x, lastCall.y>>).burnState = BURNING
    /\ CellAt(grid, <<lastCall.x, lastCall.y>>).burnDuration = 3
    /\ CellAt(grid, <<lastCall.x, lastCall.y>>).burnIntensity = 85

AllWater(gridData) ==
    \A pos \in Positions(gridData) : CellAt(gridData, pos).terrain = WATER

\* C6: a tick applied to a grid whose cells are all WATER leaves every cell unchanged,
\* for every value of the parameters.
C6_AllWaterTick ==
    [][(lastCall'.op = "tick" /\ AllWater(grid)) => grid' = grid]_vars

\* A tick has been applied to an all-WATER grid of more than one cell
C6_Witness ==
    /\ lastCall.op = "tick"
    /\ AllWater(grid)
    /\ grid.width > 1

\* C7: for a BURNING cell one tick increments burnDuration by 1 and lowers
\* burnIntensity by 0.05 floored at 0; the cell becomes BURNED with burnIntensity 0 iff
\* the new burnDuration >= flammability * 20 + 10 or the new burnIntensity <= 0.1, and
\* otherwise stays BURNING.
C7_BurningStep ==
    [][lastCall'.op = "tick" =>
         \A pos \in Positions(grid) :
            CellAt(grid, pos).burnState = BURNING =>
               LET old == CellAt(grid, pos)
                   new == CellAt(grid', pos)
                   duration == old.burnDuration + 1
                   intensity == IF old.burnIntensity - 5 < 0 THEN 0
                                ELSE old.burnIntensity - 5
                   out == \/ duration * 10 >= getFlammability(old.terrain) * 20 + 100
                          \/ intensity <= 10
               IN  /\ new.burnDuration = duration
                   /\ out => (new.burnState = BURNED /\ new.burnIntensity = 0)
                   /\ ~out => (new.burnState = BURNING /\ new.burnIntensity = intensity)]_vars

\* A tick has burnt out an URBAN cell by duration (14 = 0.2 * 20 + 10) while its
\* intensity was still above 0.1
C7_Witness ==
    /\ lastCall.op = "tick"
    /\ \E pos \in Positions(grid) :
          /\ CellAt(grid, pos).terrain = URBAN
          /\ CellAt(grid, pos).burnState = BURNED
          /\ CellAt(grid, pos).burnDuration = 14

\* C8: a FOREST cell BURNING with burnIntensity 1.0 and burnDuration 0 remains BURNING
\* under successive ticks and becomes BURNED after at least 18 and at most 26 ticks.
\* (A cell is on that trajectory when burnIntensity = 1.0 - 0.05 * burnDuration.)
C8_ForestBurnTime ==
    [][lastCall'.op = "tick" =>
         \A pos \in Positions(grid) :
            (/\ CellAt(grid, pos).terrain = FOREST
             /\ CellAt(grid, pos).burnState = BURNING
             /\ CellAt(grid, pos).burnIntensity = 100 - 5 * CellAt(grid, pos).burnDuration)
            => LET new == CellAt(grid', pos)
               IN  /\ new.burnDuration = CellAt(grid, pos).burnDuration + 1
                   /\ new.burnState \in {BURNING, BURNED}
                   /\ new.burnDuration < 18 => new.burnState = BURNING
                   /\ new.burnState = BURNING =>
                         (/\ new.burnDuration < 26
                          /\ new.burnIntensity = 100 - 5 * new.burnDuration)
                   /\ new.burnState = BURNED =>
                         (new.burnDuration >= 18 /\ new.burnDuration <= 26)]_vars

\* The only cell of a one-cell FOREST grid, ignited by igniteCell, has burnt out
C8_Witness ==
    /\ lastCall.op = "tick"
    /\ grid.width = 1
    /\ grid.height = 1
    /\ grid.cells[0][0].terrain = FOREST
    /\ grid.cells[0][0].burnState = BURNED
    /\ grid.cells[0][0].burnDuration >= 18

----------------------------------------------------------------------------
(* Properties of the application (AppSpec) *)

AllUnburned(gridData) ==
    \A pos \in Positions(gridData) :
       /\ CellAt(gridData, pos).burnState = UNBURNED
       /\ CellAt(gridData, pos).burnIntensity = 0
       /\ CellAt(gridData, pos).burnDuration = 0

\* C9: after Reset followed by Start, with no new ignition, the grid the simulation
\* advances and displays (WildfireMap's gridData) has every cell UNBURNED with
\* burnIntensity 0 and burnDuration 0 after any number of ticks.
C9_ResetThenStartUnburned ==
    (sinceReset = "ticked" /\ mapGrid # null) => AllUnburned(mapGrid)

\* C10: the reset operation maps a grid to a grid of the same width, height, bounds
\* and cell size in which every cell is UNBURNED with burnIntensity 0 and
\* burnDuration 0 and has the terrain and the coordinates of the input grid's cell.
C10_ResetGrid ==
    [][(lastCall'.op = "reset" /\ indexGrid # null) =>
         /\ indexGrid' # null
         /\ SameFrame(indexGrid', indexGrid)
         /\ DOMAIN indexGrid'.cells = DOMAIN indexGrid.cells
         /\ \A y \in DOMAIN indexGrid.cells :
               DOMAIN indexGrid'.cells[y] = DOMAIN indexGrid.cells[y]
         /\ AllUnburned(indexGrid')
         /\ \A pos \in Positions(indexGrid) :
               /\ CellAt(indexGrid', pos).terrain = CellAt(indexGrid, pos).terrain
               /\ CellAt(indexGrid', pos).x = CellAt(indexGrid, pos).x
               /\ CellAt(indexGrid', pos).y = CellAt(indexGrid, pos).y]_vars

\* Reset has just been applied to a grid in which a cell had been burning for a tick
\* (WildfireMap's copy still shows that cell)
C10_Witness ==
    /\ lastCall.op = "reset"
    /\ indexGrid # null
    /\ mapGrid # null
    /\ indexGrid.width = 2
    /\ AllUnburned(indexGrid)
    /\ \E pos \in Positions(mapGrid) :
          /\ CellAt(mapGrid, pos).burnState = BURNING
          /\ CellAt(mapGrid, pos).burnDuration > 0

\* C11: ticks and ignition clicks never interleave on one grid value: every tick and
\* every accepted ignition is computed from the grid installed last (WildfireMap's
\* gridData state), so neither overwrites the other's result.
C11_NoStaleGrid ==
    [][(lastCall'.op \in {"tick", "click"}) => effGrid = mapGrid]_vars

\* C12: once the rasterizations in flight have all resolved, the installed grid is
\* the one of the rasterization started last, whatever the order of completion.
C12_NewestRasterizationWins ==
    (pending = << >> /\ newest # null /\ lastCall.op = "rasterized")
    => (mapGrid # null /\ mapGrid.bounds = newest.bounds
        /\ mapGrid.cellSize = newest.params.gridCellSize)

\* C20: every grid made by rasterizing a selected area has width = ceil(longitudinal
\* extent in km / cellSize) >= 1 and height = ceil(latitudinal extent in km /
\* cellSize) >= 1, and its cell array has height rows of width cells each, for every
\* bounding box a selection can produce (a press and release at one point included).
C20_GridDimensions ==
    (lastCall.op = "rasterized" /\ mapGrid # null) =>
        LET latKm100 == (mapGrid.bounds.north - mapGrid.bounds.south) * 111
            lonKm100 == (mapGrid.bounds.east - mapGrid.bounds.west) * 111
            cell100 == mapGrid.cellSize * 100
        IN  /\ mapGrid.width >= 1
            /\ mapGrid.height >= 1
            /\ (mapGrid.width - 1) * cell100 < lonKm100
            /\ lonKm100 <= mapGrid.width * cell100
            /\ (mapGrid.height - 1) * cell100 < latKm100
            /\ latKm100 <= mapGrid.height * cell100
            /\ DOMAIN mapGrid.cells = 0..(mapGrid.height - 1)
            /\ \A y \in DOMAIN mapGrid.cells :
                  DOMAIN mapGrid.cells[y] = 0..(mapGrid.width - 1)

----------------------------------------------------------------------------
(* Properties of single function calls (FnSpec) *)

Returned(op) == probe.op = op /\ probe.done

\* C13: a grid cell for whose location no tile is available gets terrain GRASS.
C13_NoTileIsGrass ==
    (Returned("sampleTerrainAtLocation") /\ ~probe.arg.hasTile) => probe.out = GRASS

\* The rules of the classification, on the hue, saturation and value of a colour
WaterRule(hsv) == hsv.h >= 180 /\ hsv.h <= 240 /\ hsv.s > 30 /\ hsv.v > 20
ForestRule(hsv) == hsv.h >= 80 /\ hsv.h <= 160 /\ hsv.s > 30 /\ hsv.v < 60
GrassRule(hsv) == hsv.h >= 60 /\ hsv.h <= 120 /\ hsv.s > 20 /\ hsv.v >= 40
UrbanRule(hsv) == hsv.s < 20 /\ hsv.v > 30 /\ hsv.v < 80
FarmlandRule(hsv) == hsv.h >= 0 /\ hsv.h <= 60

\* C14: classifyTerrain returns the terrain of the first rule that matches, in the
\* order Water, Forest, Grass, Urban, Farmland, and Grass when none does; a colour in
\* the overlap of the Forest and Grass rules is FOREST and pure blue is WATER.
C14_FirstMatchWins ==
    Returned("classifyTerrain") =>
        LET hsv == rgbToHsv(probe.arg.r, probe.arg.g, probe.arg.b)
        IN  /\ WaterRule(hsv) => probe.out = WATER
            /\ (~WaterRule(hsv) /\ ForestRule(hsv)) => probe.out = FOREST
            /\ (~WaterRule(hsv) /\ ~ForestRule(hsv) /\ GrassRule(hsv)) => probe.out = GRASS
            /\ (~WaterRule(hsv) /\ ~ForestRule(hsv) /\ ~GrassRule(hsv) /\ UrbanRule(hsv))
                  => probe.out = URBAN
            /\ (~WaterRule(hsv) /\ ~ForestRule(hsv) /\ ~GrassRule(hsv) /\ ~UrbanRule(hsv)
                /\ FarmlandRule(hsv)) => probe.out = FARMLAND
            /\ (~WaterRule(hsv) /\ ~ForestRule(hsv) /\ ~GrassRule(hsv) /\ ~UrbanRule(hsv)
                /\ ~FarmlandRule(hsv)) => probe.out = GRASS
            /\ (ForestRule(hsv) /\ GrassRule(hsv)) => probe.out = FOREST
            /\ probe.arg = [r |-> 0, g |-> 0, b |-> 255] => probe.out = WATER

\* A colour that satisfies both the Forest rule and the Grass rule was classified
\* FOREST
C14_Witness ==
    /\ Returned("classifyTerrain")
    /\ ForestRule(rgbToHsv(probe.arg.r, probe.arg.g, probe.arg.b))
    /\ GrassRule(rgbToHsv(probe.arg.r, probe.arg.g, probe.arg.b))
    /\ probe.out = FOREST

\* C15: windEffect lies in [0.3, 1.0] for every position of the neighbour and every
\* wind direction: 1.0 when the wind blows from the neighbour to the cell, 0.3 when it
\* blows the opposite way.
C15_WindEffectRange ==
    Returned("calculateWindEffect") =>
        LET away == (probe.arg.windDirection - TravelDirection(probe.arg.offset)) % 360
        IN  /\ probe.out >= 300
            /\ probe.out <= 1000
            /\ away = 0 => probe.out = 1000
            /\ away = 180 => probe.out = 300

\* Whether a spread probability can be above 0: the target terrain is flammable and
\* neither the humidity nor the rain factor is 0
CanSpread(a) ==
    a.terrain # WATER /\ a.humidity < 100 /\ a.rainLikelihood < 100

\* C16 as claimed: the spread probability with the wind blowing from the neighbour to
\* the cell is strictly greater than with the wind blowing the opposite way, for every
\* terrain, source intensity and parameters.
C16_DownwindStrictlyHigher ==
    Returned("spreadBothWays") => probe.out.with > probe.out.against

\* C16 as amended: the spread probability with the wind blowing from the neighbour to
\* the cell is never lower than with the wind blowing the opposite way, and is strictly
\* greater when the target is not WATER, humidity and rain likelihood are below 100,
\* and the probability against the wind is below 1 (not clamped).
C16_DownwindHigher ==
    Returned("spreadBothWays") =>
        /\ probe.out.with >= probe.out.against
        /\ (CanSpread(probe.arg) /\ probe.out.against < ProbScale)
              => probe.out.with > probe.out.against

\* The two probabilities of a flammable target differ, neither 0 nor clamped
C16_Witness ==
    /\ Returned("spreadBothWays")
    /\ CanSpread(probe.arg)
    /\ probe.out.against > 0
    /\ probe.out.with > probe.out.against
    /\ probe.out.with < ProbScale

\* C17: spreadProbability is within [0, 1] for every terrain, wind alignment, source
\* intensity and parameter values, those outside the sliders' ranges included.
C17_SpreadProbabilityRange ==
    Returned("calculateSpreadProbability") =>
        (probe.out >= 0 /\ probe.out <= ProbScale)

\* With negative humidity and rain likelihood and a temperature of 120 the product of
\* the factors exceeds 1 and the probability returned is 1
C17_Witness ==
    /\ Returned("calculateSpreadProbability")
    /\ probe.arg.humidity < 0
    /\ probe.arg.rainLikelihood < 0
    /\ probe.arg.temperature > 70
    /\ probe.out = ProbScale

\* The neighbours of (x, y) in the order of the offsets read as (dy, dx)
RECURSIVE NeighborsByRowFrom(_, _, _, _)
NeighborsByRowFrom(cells, x, y, i) ==
    IF i > Len(Directions) THEN << >>
    ELSE LET ny == y + Directions[i][1]
             nx == x + Directions[i][2]
         IN  IF nx >= 0 /\ nx < GridWidthOf(cells) /\ ny >= 0 /\ ny < GridHeightOf(cells)
             THEN <<cells[ny][nx]>> \o NeighborsByRowFrom(cells, x, y, i + 1)
             ELSE NeighborsByRowFrom(cells, x, y, i + 1)

\* C18: the BURNING neighbours of an UNBURNED cell are evaluated in the order of the
\* (dy, dx) offsets (-1,-1), (-1,0), (-1,1), (0,-1), (0,1), (1,-1), (1,0), (1,1), one
\* random draw for each, stopping at the first whose draw ignites the cell.
C18_EvaluationOrder ==
    Returned("updateCellBurnState") =>
        probe.out = SpreadFrom(probe.arg.gridData.cells[probe.arg.y][probe.arg.x],
                               NeighborsByRowFrom(probe.arg.gridData.cells,
                                                  probe.arg.x, probe.arg.y, 1),
                               DefaultParams, probe.arg.rnd, 1, 1)

\* The cells of a grid at Chebyshev distance 1 from (x, y)
Adjacent(gridData, x, y) ==
    { pos \in Positions(gridData) :
        /\ pos # <<x, y>>
        /\ Abs(pos[1] - x) <= 1
        /\ Abs(pos[2] - y) <= 1 }

OnEdgeX(gridData, x) == x = 0 \/ x = gridData.width - 1
OnEdgeY(gridData, y) == y = 0 \/ y = gridData.height - 1

\* C19: the neighbours of a cell are exactly the cells at Chebyshev distance 1 inside
\* the grid, each once and with no wraparound: in a grid of at least 2 x 2 a corner
\* cell has 3, another edge cell 5 and an interior cell 8; and a tick sets no cell on
\* fire that has no BURNING cell at Chebyshev distance 1, so fire does not pass from
\* one edge to the opposite one.
C19_MooreNeighbours ==
    /\ Returned("getNeighbors") =>
          LET g == probe.arg.gridData
              x == probe.arg.x
              y == probe.arg.y
              n == Len(probe.out)
          IN  /\ { probe.out[i] : i \in 1..n } = Adjacent(g, x, y)
              /\ n = Cardinality(Adjacent(g, x, y))
              /\ (g.width >= 2 /\ g.height >= 2) =>
                    /\ (OnEdgeX(g, x) /\ OnEdgeY(g, y)) => n = 3
                    /\ (OnEdgeX(g, x) /\ ~OnEdgeY(g, y)) => n = 5
                    /\ (~OnEdgeX(g, x) /\ OnEdgeY(g, y)) => n = 5
                    /\ (~OnEdgeX(g, x) /\ ~OnEdgeY(g, y)) => n = 8
    /\ Returned("stepSimulation") =>
          LET g == probe.arg.gridData
          IN  \A pos \in Positions(g) :
                 (/\ CellAt(g, pos).burnState = UNBURNED
                  /\ \A q \in Adjacent(g, pos[1], pos[2]) :
                        CellAt(g, q).burnState # BURNING)
                 => CellAt(probe.out, pos) = CellAt(g, pos)

\* A tick of a 3 x 3 grid with its left column on fire has ignited the middle column
\* and left the right column UNBURNED
C19_Witness ==
    /\ Returned("stepSimulation")
    /\ probe.arg.gridData.width = 3
    /\ probe.arg.gridData.height = 3
    /\ \A y \in 0..2 :
          /\ probe.arg.gridData.cells[y][0].burnState = BURNING
          /\ probe.out.cells[y][1].burnState = BURNING
          /\ probe.out.cells[y][2].burnState = UNBURNED

\* The tiles between the corner tiles of a bounding box, both inclusive
CornerTiles(bounds, zoom) ==
    LET topLeft == latLonToTile(Frac(bounds.north, 1), Frac(bounds.west, 1), zoom)
        bottomRight == latLonToTile(Frac(bounds.south, 1), Frac(bounds.east, 1), zoom)
    IN  { [x |-> x, y |-> y] : x \in topLeft.x..bottomRight.x, y \in topLeft.y..bottomRight.y }

\* The result holds exactly the tiles between the corner tiles, each once
CompleteOnce(tiles, bounds, zoom) ==
    /\ { tiles[i] : i \in DOMAIN tiles } = CornerTiles(bounds, zoom)
    /\ Len(tiles) = Cardinality(CornerTiles(bounds, zoom))

\* C25 as claimed: getTilesForBounds returns exactly the tiles between the corner
\* tiles, each once, in row-major order from the northwest tile: a tile comes before
\* another iff it lies in a row further north, or in the same row further west.
C25_RowMajorTiles ==
    Returned("getTilesForBounds") =>
        /\ CompleteOnce(probe.out, probe.arg.bounds, probe.arg.zoom)
        /\ \A i, j \in DOMAIN probe.out :
              i < j => \/ probe.out[i].y < probe.out[j].y
                       \/ probe.out[i].y = probe.out[j].y /\ probe.out[i].x < probe.out[j].x

\* C25 amended: getTilesForBounds returns exactly the tiles between the corner tiles,
\* each once, in column-major order from the northwest tile: a tile comes before
\* another iff it lies in a column further west, or in the same column further north.
C25_ColumnMajorTiles ==
    Returned("getTilesForBounds") =>
        /\ CompleteOnce(probe.out, probe.arg.bounds, probe.arg.zoom)
        /\ \A i, j \in DOMAIN probe.out :
              i < j => \/ probe.out[i].x < probe.out[j].x
                       \/ probe.out[i].x = probe.out[j].x /\ probe.out[i].y < probe.out[j].y

\* A box that spans several columns and several rows of tiles has been enumerated
C25_Witness ==
    /\ Returned("getTilesForBounds")
    /\ \E i, j \in DOMAIN probe.out :
          probe.out[i].x # probe.out[j].x /\ probe.out[i].y # probe.out[j].y

----------------------------------------------------------------------------
(* Properties of a rasterization (RasterSpec) *)

\* The state of the fetch of the tile that holds the centre of cell (x, y)
CellFetch(x, y) ==
    LET tiles == getTilesForBounds(probe.arg.bounds, TileZoom)
        dims == GridDims(probe.arg.bounds, probe.arg.cellSize)
        tile == CellTile(probe.arg.bounds, dims[1], dims[2], x, y)
    IN  probe.fetch[CHOOSE i \in DOMAIN tiles : tiles[i] = tile]

\* The result of the same call had every fetch loaded its tile
AllLoaded ==
    processAreaToGrid(probe.arg.bounds, probe.arg.cellSize, probe.arg.params,
                      getTilesForBounds(probe.arg.bounds, TileZoom), probe.arg.images)

\* C21: failed tile fetches do not fail the rasterization. Whatever fetches failed,
\* the result of processAreaToGrid is not an error but a full grid of gridWidth x
\* gridHeight cells, in which a cell whose centre lies in a failed tile has the
\* fallback terrain classifyTerrain(120, 150, 80) and every other cell has the
\* terrain it has when no fetch fails.
C21_FailedTilesIsolated ==
    (probe.op = "processAreaToGrid" /\ probe.arg.ctx) =>
        LET dims == GridDims(probe.arg.bounds, probe.arg.cellSize)
        IN  probe.done =>
                  /\ DOMAIN probe.out = {"cells", "width", "height"}
                  /\ probe.out.width = dims[1] /\ probe.out.height = dims[2]
                  /\ DOMAIN probe.out.cells = 0..(dims[2] - 1)
                  /\ \A y \in 0..(dims[2] - 1) :
                        /\ DOMAIN probe.out.cells[y] = 0..(dims[1] - 1)
                        /\ \A x \in 0..(dims[1] - 1) :
                              probe.out.cells[y][x].terrain =
                                  IF CellFetch(x, y) = "failed"
                                  THEN classifyTerrain(120, 150, 80)
                                  ELSE AllLoaded.cells[y][x].terrain

\* A rasterization has completed in which one cell's tile failed, another cell's tile
\* loaded, and the two cells have different terrains
C21_Witness ==
    /\ probe.op = "processAreaToGrid" /\ probe.done /\ probe.arg.ctx
    /\ \E x1, x2 \in 0..(probe.out.width - 1), y1, y2 \in 0..(probe.out.height - 1) :
          /\ CellFetch(x1, y1) = "failed"
          /\ CellFetch(x2, y2) = "loaded"
          /\ probe.out.cells[y1][x1].terrain # probe.out.cells[y2][x2].terrain

\* processAreaToGrid has resolved with a grid
Rasterized(p) == p.op = "processAreaToGrid" /\ p.done /\ "cells" \in DOMAIN p.out

\* C22: the fetches of a rasterization are joined before any cell is classified. The
\* step in which the cells are classified and processAreaToGrid resolves starts in a
\* state where every fetch has loaded or failed, and in every state where
\* processAreaToGrid has resolved no fetch is idle or pending: while some fetch
\* stays unresolved there is no grid to install.
C22_JoinAllFetches ==
    /\ [](Rasterized(probe) =>
             \A i \in DOMAIN probe.fetch : probe.fetch[i] \in {"loaded", "failed"})
    /\ [][(Rasterized(probe') /\ ~Rasterized(probe)) =>
             \A i \in DOMAIN probe.fetch : probe.fetch[i] \in {"loaded", "failed"}]_vars

\* A rasterization has resolved after some fetches loaded and others failed
C22_Witness ==
    /\ Rasterized(probe)
    /\ \E i, j \in DOMAIN probe.fetch :
          probe.fetch[i] = "loaded" /\ probe.fetch[j] = "failed"

----------------------------------------------------------------------------
(* Properties of the application (AppSpec), continued *)

\* C23: when no 2D context can be created, the rasterization attempt aborts before
\* a tile is fetched: the step starts no rasterization (nothing is added to those in
\* flight), leaves WildfireMap's and Index's gridData and the grid of the last render
\* as they were, and ends with isProcessing false.
C23_AbortWithoutContext ==
    [][lastCall'.op = "aborted" =>
          /\ pending' = pending
          /\ mapGrid' = mapGrid /\ indexGrid' = indexGrid /\ effGrid' = effGrid
          /\ isProcessing' = FALSE]_vars

\* A rasterization attempt has aborted while a grid was held
C23_Witness == lastCall.op = "aborted" /\ mapGrid # null /\ indexGrid # null

----------------------------------------------------------------------------
(* Properties of single function calls (FnSpec), continued *)

SameBurn(a, b) ==
    /\ a.burnState = b.burnState
    /\ a.burnIntensity = b.burnIntensity
    /\ a.burnDuration = b.burnDuration

SameSnapshot(a, b) ==
    /\ a.windX = b.windX /\ a.windY = b.windY
    /\ a.humidity = b.humidity /\ a.temperature = b.temperature

\* C24: a tick reads the parameters it is given and never the cells' snapshot
\* fields. Two grids that differ only in windX, windY, humidity and temperature
\* have, after a tick under the same parameters and random values, the same
\* burnState, burnIntensity and burnDuration in every cell, and each keeps its own
\* snapshot fields, also under parameters other than those of the grid's creation.
C24_SnapshotsNotRead ==
    Returned("stepSimulation snapshots") =>
        \A pos \in Positions(probe.arg.gridData) :
            LET x == pos[1]
                y == pos[2]
            IN  /\ SameBurn(probe.out.plain.cells[y][x], probe.out.other.cells[y][x])
                /\ SameSnapshot(probe.out.plain.cells[y][x], probe.arg.gridData.cells[y][x])
                /\ SameSnapshot(probe.out.other.cells[y][x],
                                Resnapshot(probe.arg.gridData).cells[y][x])

\* A tick under parameters other than those of the grid's creation has ignited a
\* cell whose snapshot differs between the two grids
C24_Witness ==
    /\ Returned("stepSimulation snapshots")
    /\ probe.arg.params # DefaultParams
    /\ \E pos \in Positions(probe.arg.gridData) :
          /\ probe.arg.gridData.cells[pos[2]][pos[1]].burnState = UNBURNED
          /\ probe.out.plain.cells[pos[2]][pos[1]].burnState = BURNING
          /\ ~SameSnapshot(probe.out.plain.cells[pos[2]][pos[1]],
                           probe.out.other.cells[pos[2]][pos[1]])

----------------------------------------------------------------------------
(* Properties of the core functions (Spec), continued *)

\* C26: in every grid reached from a fresh grid by ticks, ignitions and resets, under
\* any parameters and random values, every WATER cell is UNBURNED.
C26_WaterNeverBurns ==
    \A pos \in Positions(grid) :
        CellAt(grid, pos).terrain = WATER => CellAt(grid, pos).burnState = UNBURNED

\* igniteCell was called on a WATER cell that has a BURNING or BURNED neighbour
C26_Witness ==
    /\ lastCall.op = "ignite"
    /\ InGrid(grid, lastCall.x, lastCall.y)
    /\ CellAt(grid, <<lastCall.x, lastCall.y>>).terrain = WATER
    /\ \E n \in Positions(grid) :
          /\ Abs(n[1] - lastCall.x) <= 1 /\ Abs(n[2] - lastCall.y) <= 1
          /\ CellAt(grid, n).burnState \in {BURNING, BURNED}

\* C27: in every grid reached from a fresh grid by ticks, ignitions and resets, an
\* UNBURNED cell has burnIntensity 0 and burnDuration 0, a BURNING cell has
\* 0.1 < burnIntensity <= 1.0 and burnDuration < flammability * 20 + 10, and a BURNED
\* cell has burnIntensity 0.
C27_CellInvariant ==
    \A pos \in Positions(grid) :
        LET cell == CellAt(grid, pos)
        IN  /\ cell.burnState \in BurnState
            /\ cell.burnState = UNBURNED => (cell.burnIntensity = 0 /\ cell.burnDuration = 0)
            /\ cell.burnState = BURNING =>
                  /\ cell.burnIntensity > 10 /\ cell.burnIntensity <= 100
                  /\ cell.burnDuration * 10 < getFlammability(cell.terrain) * 20 + 100
            /\ cell.burnState = BURNED => cell.burnIntensity = 0

\* An URBAN cell is BURNING in the last tick before its burnout duration 14, beside
\* a BURNED cell
C27_Witness ==
    \E pos, n \in Positions(grid) :
        /\ CellAt(grid, pos).terrain = URBAN
        /\ CellAt(grid, pos).burnState = BURNING
        /\ CellAt(grid, pos).burnDuration = 13
        /\ CellAt(grid, n).burnState = BURNED

\* C28: a cell burns for at most 18 ticks. burnDuration counts the ticks since the
\* cell became BURNING (C7); a BURNING cell has burnDuration at most 17, a BURNED
\* cell burnt out at a burnDuration of at most 18, and a tick burns a cell out while
\* its decayed intensity is still above 0.1 only on a terrain whose burnout duration
\* flammability * 20 + 10 is below 18.
C28_BurnsAtMost18Ticks ==
    /\ [](\A pos \in Positions(grid) :
             /\ CellAt(grid, pos).burnState = BURNING => CellAt(grid, pos).burnDuration <= 17
             /\ CellAt(grid, pos).burnState = BURNED => CellAt(grid, pos).burnDuration <= 18)
    /\ [][lastCall'.op = "tick" =>
             \A pos \in Positions(grid) :
                (/\ CellAt(grid, pos).burnState = BURNING
                 /\ CellAt(grid', pos).burnState = BURNED
                 /\ CellAt(grid, pos).burnIntensity - 5 > 10)
                => getFlammability(CellAt(grid, pos).terrain) * 20 + 100 < 180]_vars

\* A FARMLAND cell (burnout duration 18) has burnt out at its 18th tick
C28_Witness ==
    /\ lastCall.op = "tick"
    /\ \E pos \in Positions(grid) :
          /\ CellAt(grid, pos).terrain = FARMLAND
          /\ CellAt(grid, pos).burnState = BURNED
          /\ CellAt(grid, pos).burnDuration = 18

\* C30: a tick changes nothing but burnState, burnIntensity and burnDuration. The
\* grid's width, height, bounds and cell size and the shape of its cell array are
\* kept; every cell keeps all its other fields; a BURNED cell, and an UNBURNED cell
\* that is still UNBURNED, is the same record after the tick.
C30_TickFrame ==
    [][lastCall'.op = "tick" =>
         /\ SameFrame(grid, grid')
         /\ DOMAIN grid'.cells = DOMAIN grid.cells
         /\ \A y \in DOMAIN grid.cells : DOMAIN grid'.cells[y] = DOMAIN grid.cells[y]
         /\ \A pos \in Positions(grid) :
               LET old == CellAt(grid, pos)
                   new == CellAt(grid', pos)
               IN  /\ new = [old EXCEPT !.burnState = new.burnState,
                                        !.burnIntensity = new.burnIntensity,
                                        !.burnDuration = new.burnDuration]
                   /\ old.burnState = BURNED => new = old
                   /\ (old.burnState = UNBURNED /\ new.burnState = UNBURNED) => new = old]_vars

\* A tick has left a BURNED cell and a flammable UNBURNED cell beside a cell that has
\* been BURNING for a tick or more
C30_Witness ==
    /\ lastCall.op = "tick"
    /\ \E pos \in Positions(grid) : CellAt(grid, pos).burnState = BURNED
    /\ \E pos, n \in Positions(grid) :
          /\ CellAt(grid, pos).burnState = UNBURNED
          /\ getFlammability(CellAt(grid, pos).terrain) > 0
          /\ Abs(n[1] - pos[1]) <= 1 /\ Abs(n[2] - pos[2]) <= 1
          /\ CellAt(grid, n).burnState = BURNING
          /\ CellAt(grid, n).burnDuration >= 1

----------------------------------------------------------------------------
(* Properties of the running simulation (LiveSpec) *)

\* C29: if ticks keep occurring and igniteCell is called only finitely often (from
\* some state on, no state is entered by a call of igniteCell), the grid eventually
\* has no BURNING cell and keeps none; a tick of a grid without a BURNING cell
\* returns an equal grid, and a tick of a grid with a BURNING cell a different one.
C29_FireDiesOut ==
    /\ (<>[](lastCall.op # "ignite")) => <>[]NoBurning
    /\ [][lastCall'.op = "tick" => (NoBurning <=> grid' = grid)]_vars

\* A fire has spread to a second cell and died out, and a tick has been taken since
C29_Witness ==
    /\ lastCall.op = "tick"
    /\ NoBurning
    /\ \E pos, n \in Positions(grid) :
          /\ pos # n
          /\ CellAt(grid, pos).burnState = BURNED
          /\ CellAt(grid, n).burnState = BURNED
          /\ CellAt(grid, n).burnDuration < CellAt(grid, pos).burnDuration

----------------------------------------------------------------------------
(* Properties of single function calls (FnSpec), humidity and rain *)

\* C31: when humidity is 100 or more, or rain likelihood is 100 or more, an UNBURNED
\* cell does not ignite by spread, whatever its terrain, the number and intensity of
\* its BURNING neighbours, the wind and the temperature, even on random values of 0:
\* updateCellBurnState returns the cell as it was. igniteCell still sets the cell
\* BURNING unless it is WATER.
C31_NoSpreadWhenWet ==
    Returned("updateCellBurnState wet") =>
        LET cell == probe.arg.gridData.cells[probe.arg.y][probe.arg.x]
        IN  /\ probe.arg.params.humidity >= 100 \/ probe.arg.params.rainLikelihood >= 100
            /\ cell.burnState = UNBURNED
            /\ probe.out.updated = cell
            /\ cell.terrain # WATER =>
                  probe.out.ignited.cells[probe.arg.y][probe.arg.x].burnState = BURNING

\* A FOREST cell with eight neighbours BURNING at intensity 1.0 has been updated
\* with humidity and rain likelihood both above 100
C31_Witness ==
    /\ Returned("updateCellBurnState wet")
    /\ probe.arg.gridData.cells[1][1].terrain = FOREST
    /\ probe.arg.params.humidity > 100 /\ probe.arg.params.rainLikelihood > 100
    /\ \A o \in Offsets :
          /\ probe.arg.gridData.cells[1 + o[2]][1 + o[1]].burnState = BURNING
          /\ probe.arg.gridData.cells[1 + o[2]][1 + o[1]].burnIntensity = 100

----------------------------------------------------------------------------
(* Properties of processAreaToGrid (RasterSpec), orientation of the rows *)

\* C32: grid rows have one geographic orientation: for every cell (x, y) of a
\* rasterized grid, a click at the geographic point around which the rasterizer
\* sampled the terrain of the cell (the cell centre) is mapped by the ignition
\* handler to the same cell (x, y).
C32_RowsOneOrientation ==
    Rasterized(probe) =>
        \A y \in 0..(probe.out.height - 1) : \A x \in 0..(probe.out.width - 1) :
            LET centre == CellCentre(probe.arg.bounds, probe.out.width,
                                     probe.out.height, x, y)
            IN  ClickCell(probe.arg.bounds, probe.out.width, probe.out.height,
                          centre.lat, centre.lon) = [x |-> x, y |-> y]

----------------------------------------------------------------------------
(* Properties of single function calls (FnSpec), coverage of the cell centres *)

\* C33: for every cell of a rasterization, the tile latLonToTile assigns to the
\* cell's centre at zoom 16 is one of the tiles getTilesForBounds enumerates for the
\* bounding box; when every fetch loads, no cell gets the fallback terrain: each has
\* the terrain of its tile's pixels (WATER here; the fallback is
\* classifyTerrain(120, 150, 80)).
C33_CentresCovered ==
    Returned("processAreaToGrid tiles") =>
        /\ probe.out.grid.width >= 1 /\ probe.out.grid.height >= 1
        /\ \A y \in 0..(probe.out.grid.height - 1) :
             \A x \in 0..(probe.out.grid.width - 1) :
                /\ \E i \in DOMAIN probe.out.tiles :
                      probe.out.tiles[i] = CellTile(probe.arg.bounds, probe.out.grid.width,
                                                    probe.out.grid.height, x, y)
                /\ probe.out.grid.cells[y][x].terrain = WATER
                /\ probe.out.grid.cells[y][x].terrain # classifyTerrain(120, 150, 80)

\* A grid of at least 3 x 3 cells over at least 9 tiles has been returned, with the
\* centre of its last cell of row 0 in a tile of the south-east corner's column and
\* row
C33_Witness ==
    /\ Returned("processAreaToGrid tiles")
    /\ probe.out.grid.width >= 3 /\ probe.out.grid.height >= 3
    /\ Len(probe.out.tiles) >= 9
    /\ CellTile(probe.arg.bounds, probe.out.grid.width, probe.out.grid.height,
                probe.out.grid.width - 1, 0) = probe.out.tiles[Len(probe.out.tiles)]

----------------------------------------------------------------------------
(* Properties of the application (AppSpec), selection and the running simulation *)

\* C34: while the simulation is running (before and after the step), the grid is
\* changed only by a timer tick or an ignition click, so no rasterization result
\* replaces it, and no area selection begins.
C34_RunningGridFixed ==
    [][(isSimulationRunning /\ isSimulationRunning') =>
           /\ indexGrid' # indexGrid => lastCall'.op \in {"tick", "click"}
           /\ mapGrid' # mapGrid => lastCall'.op \in {"tick", "click"}
           /\ isSelecting' => isSelecting]_vars

\* C35: isProcessing is TRUE exactly when at least one rasterization started by an
\* area selection is in flight (has neither resolved nor failed).
C35_ProcessingIffInFlight ==
    isProcessing <=> (pending # <<>>)

\* C36: ticks and ignitions happen only while the simulation is running and a grid
\* exists: a step that is a timer tick or an accepted ignition click starts in a
\* state where isSimulationRunning holds and both Index and WildfireMap hold a grid;
\* while the simulation is not running, no step changes a cell's burn state,
\* intensity or duration except Reset; and Start leaves the simulation stopped when
\* Index holds no grid, so the simulation never runs without a grid.
C36_OnlyWhileRunning ==
    [][/\ lastCall'.op \in {"tick", "click"} =>
             isSimulationRunning /\ mapGrid # null /\ indexGrid # null /\ effGrid # null
       /\ (~isSimulationRunning /\ mapGrid # null /\ mapGrid' # mapGrid) =>
             lastCall'.op = "rasterized"
       /\ (~isSimulationRunning /\ indexGrid # null /\ indexGrid' # indexGrid) =>
             lastCall'.op \in {"rasterized", "reset"}
       /\ (lastCall'.op = "start" /\ indexGrid = null) => ~isSimulationRunning'
       /\ isSimulationRunning' => indexGrid' # null]_vars

\* The simulation has been paused after an ignition and a tick: a cell is BURNING
\* with burnDuration above 0
C36_Witness ==
    /\ ~isSimulationRunning
    /\ lastCall.op = "pause"
    /\ mapGrid # null
    /\ \E pos \in Positions(mapGrid) :
          /\ CellAt(mapGrid, pos).burnState = BURNING
          /\ CellAt(mapGrid, pos).burnDuration > 0

====
